---------------------------- MODULE Spec2Model ----------------------------
(***************************************************************************)
(* SolutionGeneratorService (solution-generator.service.ts): the shared    *)
(* embedding cache and id counter of one service instance, the generate    *)
(* calls that run on it, the three agent tools, retryOperation, and the    *)
(* users of the PostgreSQL pool.                                           *)
(*                                                                         *)
(* JavaScript runs one callback at a time: every action below is the code  *)
(* that runs between two awaits.                                           *)
(***************************************************************************)
EXTENDS Naturals, Integers, Sequences, FiniteSets, TLC

(***************************************************************************)
(* Bounds of the model.                                                    *)
(***************************************************************************)
\* generate calls made on the one service instance
NumCalls == 2
\* tool calls started by all agent invocations together (each invocation by
\* itself is allowed maxIterations = 15 rounds by the executor)
MaxToolCalls == 3
\* largest maxRetries handed to retryOperation (its call sites pass 3 and 5)
MaxRetriesBound == 5

(***************************************************************************)
(* Program constants.                                                      *)
(***************************************************************************)
BooksDim == 3072
VideosDim == 1536
Calls == 1..NumCalls
Dims == {BooksDim, VideosDim}

VARIABLES
  embeddingCache,    \* Map<string, number[]>: key <<n, dim>> stands for "emb_<n>_<dim>"
  embeddingCounter,  \* this.embeddingCounter
  gen,               \* per call: where generate() is
  agent,             \* per call: where agentExecutor.invoke() is
  tool,              \* per call: the tool call in progress (kept once it has thrown)
  toolCalls,         \* tool calls started so far, by all agents
  returnedIds,       \* per call: the embeddingIds generateEmbedding returned, in order
  clears,            \* per call: clearEmbeddingCache() calls made by generate()
  sinceClear,        \* the embeddingIds returned since the latest clear
  rPc,               \* retryOperation: "off", "await", "sleep", "returned", "thrown"
  maxRetries,        \* retryOperation's parameter
  baseDelay,         \* retryOperation's parameter
  attempt,           \* retryOperation's loop variable
  lastError,         \* retryOperation's local
  delay,             \* retryOperation's local: the delay of the sleep in progress
  random,            \* what Math.random() returned for that delay, in thousandths
  raised,            \* the error the latest failed operation() call raised
  firstRaised,       \* the error the first failed operation() call raised
  invocations,       \* operation() calls made so far
  sleeps,            \* sleeps started so far
  outcome            \* the value retryOperation returned or the error it threw

cacheVars == <<embeddingCache, embeddingCounter, gen, agent, tool, toolCalls,
               returnedIds, clears, sinceClear>>
retryVars == <<rPc, maxRetries, baseDelay, attempt, lastError, delay, random,
               raised, firstRaised, invocations, sleeps, outcome>>
VARIABLES
  eCalls,            \* generateEmbedding calls started so far
  ePc,               \* the call in progress: "idle", "attempt", "sleep", "returned", "thrown"
  eAttempt,          \* retryOperation's loop variable for that call
  eReq,              \* per dimension: the embedQuery request of the current attempt
  eVec,              \* per dimension: the vector that request resolved with
  eIssued,           \* per dimension: embedQuery requests issued by the call
  eFailed,           \* per dimension: requests of the call that were rejected
  eSucceeded,        \* per dimension: requests of the call that resolved
  eResponse,         \* what the tool returned to the agent
  eResponseTwin      \* what it returns in a run whose vectors have other contents

embedVars == <<eCalls, ePc, eAttempt, eReq, eVec, eIssued, eFailed, eSucceeded,
               eResponse, eResponseTwin>>
VARIABLES
  users,             \* per pool user (probe, vectorSearch, videoSearch): its call in progress
  pgCheckedOut,      \* clients checked out of this.pgPool
  probeStep,         \* testPgConnectionWithRetry: the await its try block is at
  rounds,            \* tool rounds the agent has taken
  steps,             \* the agent's scratchpad: the tool outcomes it has been shown
  output,            \* the parsed final answer handed to validateAndTransformResponse
  pgInFlight         \* a query is still running on a client released to the pool

searchVars == <<users, pgCheckedOut, probeStep, rounds, steps, output, pgInFlight>>
\* the state of the tool calls followed step by step
\* generate() from the agent's invocation to its outcome (SpecAnswer)
VARIABLES
  aPc,          \* where the generate call is: "idle", "images", "agent", "output", "returned", "failed"
  aIterations,  \* rounds the AgentExecutor has used in this invocation
  aStopped,     \* the executor ended because maxIterations was reached
  aInvoked,     \* number of agentExecutor.invoke calls of this generate call
  aOutput,      \* result.output as the executor returned it
  aFields,      \* the fields the model wrote inside the braces of its final text
  aJsonString,  \* the string handed to JSON.parse
  aOutcome,     \* what generate returned or threw
  aPending      \* markdown images generate() still has to wait for

answerVars == <<aPc, aIterations, aStopped, aInvoked, aOutput, aFields,
                aJsonString, aOutcome, aPending>>
\* the controller's POST /generate handler (SpecController)
VARIABLES
  cPc,            \* where the handler is: "idle", "images", "generate", "join", "responded", "failed"
  cQuestion,      \* the question with the images extracted for it
  cGenerate,      \* the generateSolution call
  cGrade,         \* the gradeQuestion call
  cClassify,      \* the classifyQuestion call
  cFirstRejected, \* the member promise of Promise.all that rejected first
  cResult         \* the response the handler returned or the error it threw

controllerVars == <<cPc, cQuestion, cGenerate, cGrade, cClassify, cFirstRejected,
                    cResult>>
\* QuestionTaggerService: the agent its constructor starts to build
VARIABLE taggerAgent  \* "pending" (agentExecutor not assigned yet), "set" or "failed"

\* classifyQuestion() from the parsed agent output to validation's outcome
VARIABLES
  tPc,        \* "idle", "parsed", then "returned" or "threw"
  tResponse,  \* parsedResponse, handed to validateAndTransformResponse
  tOutcome    \* the dto returned, or the error thrown

classificationVars == <<tPc, tResponse, tOutcome>>
taggerVars == <<taggerAgent, classificationVars>>
entryVars == <<answerVars, controllerVars, taggerVars>>

toolVars == <<embedVars, searchVars, entryVars>>
vars == <<cacheVars, retryVars, toolVars>>

(***************************************************************************)
(* Values.                                                                 *)
(***************************************************************************)
NoVec == <<>>
NoTool == [name |-> "none", id |-> 0, vec |-> NoVec, phase |-> "none"]

\* The vector the provider returns to the n-th generateEmbedding call of generate
\* call c: this.embeddings answers with BooksDim numbers, this.videoEmbeddings
\* with VideosDim numbers.
embedQuery(c, n, dim) == <<c, n, dim>>
VecCall(v) == v[1]
VecDim(v) == v[3]

\* `${embeddingId}_3072`, `${embeddingId}_1536`
CacheKey(id, dim) == <<id, dim>>

cacheGet(key) == IF key \in DOMAIN embeddingCache THEN embeddingCache[key] ELSE NoVec

cacheSet(cache, key, v) ==
  [k \in DOMAIN cache \cup {key} |-> IF k = key THEN v ELSE cache[k]]

EmptyCache == [k \in {} |-> NoVec]

CacheInit ==
  /\ embeddingCache = EmptyCache
  /\ embeddingCounter = 0
  /\ gen = [c \in Calls |-> "idle"]
  /\ agent = [c \in Calls |-> "none"]
  /\ tool = [c \in Calls |-> NoTool]
  /\ toolCalls = 0
  /\ returnedIds = [c \in Calls |-> <<>>]
  /\ clears = [c \in Calls |-> 0]
  /\ sinceClear = {}

\* no retryOperation call is followed
RetryOff ==
  /\ rPc = "off"
  /\ maxRetries = 0
  /\ baseDelay = 0
  /\ attempt = 0
  /\ lastError = "undefined"
  /\ delay = 0
  /\ random = 0
  /\ raised = "none"
  /\ firstRaised = "none"
  /\ invocations = 0
  /\ sleeps = 0
  /\ outcome = "none"

\* no generateEmbedding call is followed step by step
EmbedInit ==
  /\ eCalls = 0
  /\ ePc = "idle"
  /\ eAttempt = 0
  /\ eReq = [d \in Dims |-> "none"]
  /\ eVec = [d \in Dims |-> NoVec]
  /\ eIssued = [d \in Dims |-> 0]
  /\ eFailed = [d \in Dims |-> 0]
  /\ eSucceeded = [d \in Dims |-> 0]
  /\ eResponse = "none"
  /\ eResponseTwin = "none"

\* `${embeddingId}` the agent passes and its optional limit (<<>>: left out)
NoLimit == <<>>
NoResponse == [kind |-> "none"]
\* no call of that user in progress
NoCall == [pc |-> "idle", attempt |-> 0, client |-> FALSE, exit |-> "none",
           resolved |-> 0, delays |-> 0, id |-> 0, limit |-> NoLimit,
           queryLimit |-> 0, lookup |-> "none", vec |-> NoVec, rowCount |-> 0,
           response |-> NoResponse]
Searchers == {"vectorSearch", "videoSearch"}
Users == {"probe"} \cup Searchers
NoOutput == [isArray |-> FALSE, items |-> <<>>]

\* the service as constructed: onModuleInit has not run, no tool call made
SearchInit ==
  /\ users = [u \in Users |-> NoCall]
  /\ pgCheckedOut = 0
  /\ probeStep = 0
  /\ rounds = 0
  /\ steps = {}
  /\ output = NoOutput
  /\ pgInFlight = FALSE

\* a JavaScript value as far as validation looks at it: its type, a number in
\* halves (3 is 1.5) and a string as its characters
Undefined == [type |-> "undefined", halves |-> 0, chars |-> <<>>]
NoFields == [answer |-> Undefined, ans_description |-> Undefined,
             references |-> "undefined"]
NoError == [type |-> "none", message |-> <<>>, origin |-> <<>>]
NoIds == [subject_id |-> Undefined, topic_id |-> Undefined, category_id |-> Undefined]
NoOutcome == [status |-> "none", error |-> NoError, dto |-> NoFields]
AnswerInit ==
  /\ aPc = "idle"
  /\ aIterations = 0
  /\ aStopped = FALSE
  /\ aInvoked = 0
  /\ aOutput = [kind |-> "none", text |-> <<>>]
  /\ aFields = NoFields
  /\ aJsonString = <<>>
  /\ aOutcome = NoOutcome
  /\ aPending = 0

\* what an agent or model invocation receives: the input text, the image count
\* written into the system prompt and the content parts of a multimodal message
NoInput == [input |-> "none", imagesContext |-> 0, content |-> <<>>]
\* a call of one of the three entry points
NoEntry == [status |-> "none", input |-> NoInput, twin |-> NoInput, error |-> NoError,
            value |-> "none"]
NoQuestion == [markdown |-> 0, images |-> <<>>, processed |-> <<>>]
NoResult == [status |-> "none", error |-> NoError, difficulty |-> "none",
             subject |-> "none", description |-> "none"]
ControllerInit ==
  /\ cPc = "idle"
  /\ cQuestion = NoQuestion
  /\ cGenerate = NoEntry
  /\ cGrade = NoEntry
  /\ cClassify = NoEntry
  /\ cFirstRejected = "none"
  /\ cResult = NoResult

\* the constructor has called initializeAgent() and returned without awaiting it
TaggerInit ==
  /\ taggerAgent = "pending"
  /\ tPc = "idle"
  /\ tResponse = [kind |-> "none", fields |-> NoIds]
  /\ tOutcome = [dto |-> NoIds, error |-> NoError]

EntryInit == AnswerInit /\ ControllerInit /\ TaggerInit

ToolsInit == EmbedInit /\ SearchInit /\ EntryInit

Init == CacheInit /\ RetryOff /\ ToolsInit

(***************************************************************************)
(* clearEmbeddingCache and generate                                        *)
(***************************************************************************)
\* a clear that removes the books entries only
clearEmbeddingCacheBooksOnly(c) ==
  /\ embeddingCache' = [k \in {j \in DOMAIN embeddingCache : j[2] # BooksDim}
                          |-> embeddingCache[k]]
  /\ embeddingCounter' = 0
  /\ clears' = [clears EXCEPT ![c] = @ + 1]
  /\ sinceClear' = {}

clearEmbeddingCache(c) ==
  /\ embeddingCache' = EmptyCache
  /\ embeddingCounter' = 0
  /\ clears' = [clears EXCEPT ![c] = @ + 1]
  /\ sinceClear' = {}

\* generate() with the clearEmbeddingCache() call left out
generateEnterNoClear(c, hasMarkdownImages) ==
  /\ gen[c] = "idle"
  /\ \A d \in Calls : d < c => gen[d] # "idle"
  /\ IF hasMarkdownImages
       THEN /\ gen' = [gen EXCEPT ![c] = "images"]
            /\ agent' = agent
       ELSE /\ gen' = [gen EXCEPT ![c] = "agent"]
            /\ agent' = [agent EXCEPT ![c] = "llm"]
  /\ UNCHANGED <<embeddingCache, embeddingCounter, clears, sinceClear>>
  /\ UNCHANGED <<tool, toolCalls, returnedIds>>

\* generate() up to its first await (calls are numbered in the order they are
\* made): the clear, then either the await of
\* imageProcessor.processQuestionAndOptions (markdown images present) or the
\* call of agentExecutor.invoke and the await of executeWithTimeout.
generateEnter(c, hasMarkdownImages) ==
  /\ gen[c] = "idle"
  /\ \A d \in Calls : d < c => gen[d] # "idle"
  /\ clearEmbeddingCache(c)
  /\ IF hasMarkdownImages
       THEN /\ gen' = [gen EXCEPT ![c] = "images"]
            /\ agent' = agent
       ELSE /\ gen' = [gen EXCEPT ![c] = "agent"]
            /\ agent' = [agent EXCEPT ![c] = "llm"]
  /\ UNCHANGED <<tool, toolCalls, returnedIds>>

generateStart(c) ==
  /\ \E hasMarkdownImages \in BOOLEAN : generateEnter(c, hasMarkdownImages)
  /\ UNCHANGED <<retryVars, toolVars>>

\* generate() called only once every earlier call has returned or thrown
generateStartAlone(c) ==
  /\ \A d \in Calls : gen[d] \in {"idle", "returned", "failed"}
  /\ \E hasMarkdownImages \in BOOLEAN : generateEnter(c, hasMarkdownImages)
  /\ UNCHANGED <<retryVars, toolVars>>

\* processQuestionAndOptions resolved (it never rejects): invoke the agent
generateImagesProcessed(c) ==
  /\ gen[c] = "images"
  /\ gen' = [gen EXCEPT ![c] = "agent"]
  /\ agent' = [agent EXCEPT ![c] = "llm"]
  /\ UNCHANGED <<embeddingCache, embeddingCounter, tool, toolCalls, returnedIds, clears, sinceClear>>
  /\ UNCHANGED <<retryVars, toolVars>>

\* executeWithTimeout: the 120 s timer rejects the race; generate() throws.
\* Promise.race leaves agentExecutor.invoke() running.
executeWithTimeoutFires(c) ==
  /\ gen[c] = "agent"
  /\ agent[c] \in {"llm", "tool"}
  /\ gen' = [gen EXCEPT ![c] = "failed"]
  /\ UNCHANGED <<embeddingCache, embeddingCounter, agent, tool, toolCalls, returnedIds, clears, sinceClear>>
  /\ UNCHANGED <<retryVars, toolVars>>

\* what generate() does when the agent's promise settles: nothing if the timer won
generateSettles(c, end) ==
  gen' = [gen EXCEPT ![c] = IF gen[c] = "agent" THEN end ELSE @]

(***************************************************************************)
(* The agent loop and its tools                                            *)
(***************************************************************************)
\* the model answers with final text; generate() parses and validates it
agentFinalAnswer(c) ==
  /\ agent[c] = "llm"
  /\ agent' = [agent EXCEPT ![c] = "done"]
  /\ \E end \in {"returned", "failed"} : generateSettles(c, end)
  /\ UNCHANGED <<embeddingCache, embeddingCounter, tool, toolCalls, returnedIds, clears, sinceClear>>
  /\ UNCHANGED <<retryVars, toolVars>>

\* a tool throws: agentExecutor.invoke() rejects
toolThrows(c, t) ==
  /\ tool' = [tool EXCEPT ![c] = [t EXCEPT !.phase = "threw"]]
  /\ agent' = [agent EXCEPT ![c] = "error"]
  /\ generateSettles(c, "failed")

\* a tool returns its text to the agent: the call and its locals are gone
toolReturns(c) ==
  /\ tool' = [tool EXCEPT ![c] = NoTool]
  /\ agent' = [agent EXCEPT ![c] = "llm"]
  /\ gen' = gen

\* the model requests generateEmbedding: retryOperation's first attempt issues
\* both embedQuery calls
generateEmbeddingCall(c) ==
  /\ agent[c] = "llm"
  /\ toolCalls < MaxToolCalls
  /\ toolCalls' = toolCalls + 1
  /\ tool' = [tool EXCEPT ![c] = [name |-> "generateEmbedding", id |-> 0,
                                  vec |-> NoVec, phase |-> "attempt"]]
  /\ agent' = [agent EXCEPT ![c] = "tool"]
  /\ UNCHANGED <<embeddingCache, embeddingCounter, gen, returnedIds, clears, sinceClear>>
  /\ UNCHANGED <<retryVars, toolVars>>

\* this.embeddingCounter read without the increment
noIncrement(counter) == counter

\* ++this.embeddingCounter
preIncrement(counter) == counter + 1

\* only the books vector is written
storeEmbeddingsBooksOnly(c, n, embeddingId) ==
  embeddingCache' =
    cacheSet(embeddingCache, CacheKey(embeddingId, BooksDim), embedQuery(c, n, BooksDim))

\* the two cache writes of one successful attempt
storeEmbeddings(c, n, embeddingId) ==
  embeddingCache' =
    cacheSet(cacheSet(embeddingCache,
                      CacheKey(embeddingId, BooksDim), embedQuery(c, n, BooksDim)),
             CacheKey(embeddingId, VideosDim), embedQuery(c, n, VideosDim))

\* Promise.all resolved: mint the id, store both vectors, return the metadata
generateEmbeddingResolves(c) ==
  /\ agent[c] = "tool"
  /\ tool[c].name = "generateEmbedding"
  /\ LET embeddingId == preIncrement(embeddingCounter)
         n == Len(returnedIds[c]) + 1
     IN /\ embeddingCounter' = embeddingId
        /\ storeEmbeddings(c, n, embeddingId)
        /\ returnedIds' = [returnedIds EXCEPT ![c] = Append(@, embeddingId)]
        /\ sinceClear' = sinceClear \cup {embeddingId}
        /\ toolReturns(c)
  /\ UNCHANGED <<toolCalls, clears>>
  /\ UNCHANGED <<retryVars, toolVars>>

\* Promise.all rejected on every attempt retryOperation made: the tool throws.
\* (An attempt that is rejected and retried changes nothing modelled here; the
\* attempts are counted by the retryOperation actions below.)
generateEmbeddingExhausts(c) ==
  /\ agent[c] = "tool"
  /\ tool[c].name = "generateEmbedding"
  /\ toolThrows(c, tool[c])
  /\ UNCHANGED <<embeddingCache, embeddingCounter, toolCalls, returnedIds, clears, sinceClear>>
  /\ UNCHANGED <<retryVars, toolVars>>

\* the ids the model passes to the search tools: one generateEmbedding returned
\* to it, or emb_1 made up from the format its prompt describes
AgentIds(c) == {returnedIds[c][i] : i \in DOMAIN returnedIds[c]} \cup {1}

\* vectorSearch reading the videos key
vectorSearchKeyVideos(embeddingId) == CacheKey(embeddingId, VideosDim)

\* vectorSearch reads `${embeddingId}_3072`
vectorSearchKey(embeddingId) == CacheKey(embeddingId, BooksDim)

\* the model requests vectorSearch(embeddingId): the cache lookup comes first;
\* a miss throws at once, a hit is kept in a local and the 500 ms delay starts
vectorSearchCall(c, embeddingId) ==
  /\ agent[c] = "llm"
  /\ toolCalls < MaxToolCalls
  /\ toolCalls' = toolCalls + 1
  /\ LET embedding == cacheGet(vectorSearchKey(embeddingId))
         t == [name |-> "vectorSearch", id |-> embeddingId, vec |-> embedding,
               phase |-> "delay"]
     IN IF embedding = NoVec
          THEN toolThrows(c, t)
          ELSE /\ tool' = [tool EXCEPT ![c] = t]
               /\ agent' = [agent EXCEPT ![c] = "tool"]
               /\ gen' = gen
  /\ UNCHANGED <<embeddingCache, embeddingCounter, returnedIds, clears, sinceClear>>
  /\ UNCHANGED <<retryVars, toolVars>>

\* vectorSearch after its delay: the query sends the local vector to match_documents
vectorSearchQuery(c) ==
  /\ agent[c] = "tool"
  /\ tool[c].name = "vectorSearch"
  /\ tool[c].phase = "delay"
  /\ tool' = [tool EXCEPT ![c].phase = "query"]
  /\ UNCHANGED <<embeddingCache, embeddingCounter, gen, agent, toolCalls, returnedIds, clears, sinceClear>>
  /\ UNCHANGED <<retryVars, toolVars>>

\* the model requests videoSearch(embeddingId): the 500 ms delay comes first
videoSearchCall(c, embeddingId) ==
  /\ agent[c] = "llm"
  /\ toolCalls < MaxToolCalls
  /\ toolCalls' = toolCalls + 1
  /\ tool' = [tool EXCEPT ![c] = [name |-> "videoSearch", id |-> embeddingId,
                                  vec |-> NoVec, phase |-> "delay"]]
  /\ agent' = [agent EXCEPT ![c] = "tool"]
  /\ UNCHANGED <<embeddingCache, embeddingCounter, gen, returnedIds, clears, sinceClear>>
  /\ UNCHANGED <<retryVars, toolVars>>

\* videoSearch reads `${embeddingId}_1536`
videoSearchKey(embeddingId) == CacheKey(embeddingId, VideosDim)

\* videoSearch after its delay: the cache lookup; a hit is kept in a local and
\* sent to video_recordings, a miss throws into the tool's own catch
videoSearchLookup(c) ==
  /\ agent[c] = "tool"
  /\ tool[c].name = "videoSearch"
  /\ tool[c].phase = "delay"
  /\ LET embedding == cacheGet(videoSearchKey(tool[c].id))
     IN tool' = [tool EXCEPT ![c] = [@ EXCEPT !.vec = embedding,
                   !.phase = IF embedding = NoVec THEN "miss" ELSE "query"]]
  /\ UNCHANGED <<embeddingCache, embeddingCounter, gen, agent, toolCalls, returnedIds, clears, sinceClear>>
  /\ UNCHANGED <<retryVars, toolVars>>

\* videoSearch's catch turns the miss into the text the tool returns
videoSearchMissReturns(c) ==
  /\ agent[c] = "tool"
  /\ tool[c].phase = "miss"
  /\ toolReturns(c)
  /\ UNCHANGED <<embeddingCache, embeddingCounter, toolCalls, returnedIds, clears, sinceClear>>
  /\ UNCHANGED <<retryVars, toolVars>>

\* the store answers the query of either search tool: the tool returns its text
searchQueryResolves(c) ==
  /\ agent[c] = "tool"
  /\ tool[c].phase = "query"
  /\ toolReturns(c)
  /\ UNCHANGED <<embeddingCache, embeddingCounter, toolCalls, returnedIds, clears, sinceClear>>
  /\ UNCHANGED <<retryVars, toolVars>>

\* the query failed or timed out on every attempt retryOperation made (each
\* attempt sent the same local vector): vectorSearch rethrows, videoSearch
\* catches the error and returns it as text
searchQueryExhausts(c) ==
  /\ agent[c] = "tool"
  /\ tool[c].phase = "query"
  /\ IF tool[c].name = "videoSearch"
       THEN toolReturns(c)
       ELSE toolThrows(c, tool[c])
  /\ UNCHANGED <<embeddingCache, embeddingCounter, toolCalls, returnedIds, clears, sinceClear>>
  /\ UNCHANGED <<retryVars, toolVars>>

AgentNext(c) ==
  \/ generateImagesProcessed(c)
  \/ executeWithTimeoutFires(c)
  \/ agentFinalAnswer(c)
  \/ generateEmbeddingCall(c)
  \/ generateEmbeddingResolves(c)
  \/ generateEmbeddingExhausts(c)
  \/ \E embeddingId \in AgentIds(c) : vectorSearchCall(c, embeddingId)
  \/ vectorSearchQuery(c)
  \/ \E embeddingId \in AgentIds(c) : videoSearchCall(c, embeddingId)
  \/ videoSearchLookup(c)
  \/ videoSearchMissReturns(c)
  \/ searchQueryResolves(c)
  \/ searchQueryExhausts(c)

\* generate calls may overlap on the one instance
Next == \E c \in Calls : generateStart(c) \/ AgentNext(c)

Spec == Init /\ [][Next]_vars

\* generate calls never overlap: each starts after the previous one ended
NextAlone == \E c \in Calls : generateStartAlone(c) \/ AgentNext(c)

SpecAlone == Init /\ [][NextAlone]_vars

(***************************************************************************)
(* Properties of the embedding cache under generate calls                  *)
(***************************************************************************)
\* the search tool of call c has made its cache lookup
LookupMade(c) ==
  \/ tool[c].name = "vectorSearch"
  \/ tool[c].name = "videoSearch" /\ tool[c].phase \in {"query", "miss"}

\* the dimension a search tool asks for
SearchDim(name) == IF name = "vectorSearch" THEN BooksDim ELSE VideosDim

\* the ids generateEmbedding has returned to call c
IdsReturnedTo(c) == {returnedIds[c][i] : i \in DOMAIN returnedIds[c]}

\* the latest generateEmbedding call of c that returned id
LatestRequest(c, id) ==
  CHOOSE n \in DOMAIN returnedIds[c] :
    /\ returnedIds[c][n] = id
    /\ \A m \in DOMAIN returnedIds[c] : returnedIds[c][m] = id => m <= n

\* C1: with generate calls overlapping on one instance, a search tool of a call
\* that looks up an id this call's generateEmbedding returned earlier finds the
\* vector this call stored under it: not nothing, and not another call's vector.
C1_LookupFindsOwnVector ==
  \A c \in Calls :
    (LookupMade(c) /\ tool[c].id \in IdsReturnedTo(c))
      => tool[c].vec = embedQuery(c, LatestRequest(c, tool[c].id), SearchDim(tool[c].name))

\* C2: with generate calls that never overlap, every cache entry present while a
\* call is running was stored by a tool call of that call.
C2_CacheHoldsRunningCallsEntriesOnly ==
  \A c \in Calls :
    gen[c] \in {"images", "agent"}
      => \A k \in DOMAIN embeddingCache : VecCall(embeddingCache[k]) = c

\* call c has run, or is running, a tool
ToolRan(c) == tool[c] # NoTool \/ returnedIds[c] # <<>>

\* C3: a generate call clears the cache exactly once, before any of its tools
\* runs, and never a second time.
C3_OneClearBeforeAnyTool ==
  \A c \in Calls :
    /\ clears[c] <= 1
    /\ gen[c] # "idle" => clears[c] = 1
    /\ (agent[c] # "none" \/ ToolRan(c)) => clears[c] = 1

C3_Witness ==
  \E c \in Calls :
    /\ gen[c] = "returned"
    /\ returnedIds[c] # <<>>
    /\ clears[c] = 1

\* C8: the vector a search tool sends to its store has the store's dimension
\* (3072 to the document store, 1536 to the video store) and was produced by the
\* embedding request of that dimension made by a generateEmbedding call that
\* returned the id the tool was given.
C8_SearchSendsVectorOfItsIdAndDimension ==
  \A c \in Calls :
    tool[c].phase = "query"
      => /\ VecDim(tool[c].vec) = SearchDim(tool[c].name)
         /\ \E d \in Calls : \E n \in DOMAIN returnedIds[d] :
              /\ returnedIds[d][n] = tool[c].id
              /\ tool[c].vec = embedQuery(d, n, SearchDim(tool[c].name))

C8_Witness ==
  \E c, d \in Calls :
    /\ tool[c].name = "vectorSearch" /\ tool[c].phase = "query"
    /\ tool[d].name = "videoSearch" /\ tool[d].phase = "query"

\* C9: an id has its 3072 entry in the cache exactly when it has its 1536 entry.
C9_BothEntriesOrNeither ==
  \A k \in DOMAIN embeddingCache :
    /\ k[2] \in Dims
    /\ \A dim \in Dims : CacheKey(k[1], dim) \in DOMAIN embeddingCache

C9_Witness ==
  /\ Cardinality(DOMAIN embeddingCache) = 4
  /\ \E c \in Calls : gen[c] = "failed"

\* the step in which generateEmbedding returns an id to call c, and that id
Mints(c) == Len(returnedIds'[c]) = Len(returnedIds[c]) + 1
MintedId(c) == returnedIds'[c][Len(returnedIds'[c])]

\* C10 as claimed: the id generateEmbedding returns is greater than every id
\* returned before on the instance, so that none is issued twice.
C10_IdGreaterThanAllEarlier ==
  [][\A c \in Calls :
       Mints(c) => \A d \in Calls : \A i \in DOMAIN returnedIds[d] :
                     returnedIds[d][i] < MintedId(c)]_vars

\* C10 as amended: the id generateEmbedding returns is greater than every id
\* returned since the latest clearEmbeddingCache, so that none is issued twice
\* between two clears.
C10_IdGreaterThanAllSinceClear ==
  [][\A c \in Calls :
       Mints(c) => \A id \in sinceClear : id < MintedId(c)]_vars

C10_Witness ==
  /\ Cardinality(sinceClear) = 2
  /\ \E c, d \in Calls : c # d /\ returnedIds[c] # <<>> /\ returnedIds[d] # <<>>

(***************************************************************************)
(* retryOperation, followed through one call                               *)
(***************************************************************************)
\* baseDelay of the call sites (1000: agent initialization, 2000: the others),
\* and 1 as the smallest delay that is not zero
BaseDelays == {1, 1000, 2000}
\* Math.random() in thousandths: 0, the middle, and the largest value below 1
RandomValues == {0, 500, 999}
\* what operation() rejects with: Error objects, as every operation the
\* service passes in (pg, the embedding client, `throw new Error`) raises
Errors == {"errorA", "errorB"}
\* what operation() resolves with
Results == {"resultA", "resultB"}

\* the exponent taken as attempt instead of attempt - 1
retryDelayNextPower(base, k, r) == (base * (2 ^ k) * (10000 + 3 * r)) \div 10000

\* the jitter left out
retryDelayNoJitter(base, k, r) == base * (2 ^ (k - 1))

\* Math.floor(baseDelay * Math.pow(2, attempt - 1) * (1 + jitter)) with
\* jitter = Math.random() * 0.3, in exact arithmetic: r is Math.random() * 1000
retryDelay(base, k, r) == (base * (2 ^ (k - 1)) * (10000 + 3 * r)) \div 10000

\* retryOperation is called: the loop is entered and attempt 1 calls operation()
RetryInit ==
  /\ maxRetries \in 1..MaxRetriesBound
  /\ baseDelay \in BaseDelays
  /\ attempt = 1
  /\ rPc = "await"
  /\ invocations = 1
  /\ lastError = "undefined"
  /\ delay = 0
  /\ random = 0
  /\ raised = "none"
  /\ firstRaised = "none"
  /\ sleeps = 0
  /\ outcome = "none"

\* operation() resolved: return result
operationResolves(result) ==
  /\ rPc = "await"
  /\ rPc' = "returned"
  /\ outcome' = result
  /\ UNCHANGED <<maxRetries, baseDelay, attempt, lastError, delay, random, raised,
                 firstRaised, invocations, sleeps>>
  /\ UNCHANGED <<cacheVars, toolVars>>

\* lastError assigned by the first failure only
catchErrorKeepFirst(error) ==
  lastError' = IF lastError = "undefined" THEN error ELSE lastError

\* the catch block's assignment to lastError
catchError(error) == lastError' = error

\* the catch block without the `attempt === maxRetries` break: every failure
\* is followed by a sleep
operationRejectsSleepsAlways(error, r) ==
  /\ rPc = "await"
  /\ raised' = error
  /\ firstRaised' = IF firstRaised = "none" THEN error ELSE firstRaised
  /\ catchError(error)
  /\ rPc' = "sleep"
  /\ random' = r
  /\ delay' = retryDelay(baseDelay, attempt, r)
  /\ sleeps' = sleeps + 1
  /\ outcome' = outcome
  /\ UNCHANGED <<maxRetries, baseDelay, attempt, invocations>>
  /\ UNCHANGED <<cacheVars, toolVars>>

\* operation() rejected: the catch block; the last attempt breaks out of the
\* loop to `throw lastError`, any other one starts the sleep
operationRejects(error, r) ==
  /\ rPc = "await"
  /\ raised' = error
  /\ firstRaised' = IF firstRaised = "none" THEN error ELSE firstRaised
  /\ catchError(error)
  /\ IF attempt = maxRetries
       THEN /\ rPc' = "thrown"
            /\ outcome' = lastError'
            /\ UNCHANGED <<delay, random, sleeps>>
       ELSE /\ rPc' = "sleep"
            /\ random' = r
            /\ delay' = retryDelay(baseDelay, attempt, r)
            /\ sleeps' = sleeps + 1
            /\ outcome' = outcome
  /\ UNCHANGED <<maxRetries, baseDelay, attempt, invocations>>
  /\ UNCHANGED <<cacheVars, toolVars>>

\* the loop without its attempt++
sleepEndsNoIncrement ==
  /\ rPc = "sleep"
  /\ rPc' = "await"
  /\ invocations' = invocations + 1
  /\ UNCHANGED <<maxRetries, baseDelay, attempt, lastError, delay, random, raised,
                 firstRaised, sleeps, outcome>>
  /\ UNCHANGED <<cacheVars, toolVars>>

\* the sleep is over: attempt++, the loop test, and the next operation() call
\* (or, with the loop test false, `throw lastError`)
sleepEnds ==
  /\ rPc = "sleep"
  /\ attempt' = attempt + 1
  /\ IF attempt' <= maxRetries
       THEN /\ rPc' = "await"
            /\ invocations' = invocations + 1
            /\ outcome' = outcome
       ELSE /\ rPc' = "thrown"
            /\ outcome' = lastError
            /\ invocations' = invocations
  /\ UNCHANGED <<maxRetries, baseDelay, lastError, delay, random, raised,
                 firstRaised, sleeps>>
  /\ UNCHANGED <<cacheVars, toolVars>>

RetryNext ==
  \/ \E result \in Results : operationResolves(result)
  \/ \E error \in Errors, r \in RandomValues : operationRejects(error, r)
  \/ sleepEnds

InitRetry == CacheInit /\ RetryInit /\ ToolsInit

SpecRetry == InitRetry /\ [][RetryNext]_vars

(***************************************************************************)
(* Properties of retryOperation                                            *)
(***************************************************************************)
\* C4: retryOperation with maxRetries >= 1 calls the operation at least once and
\* at most maxRetries times, whatever succeeds and fails.
C4_InvokedBetweenOnceAndMaxRetries ==
  /\ 1 <= invocations
  /\ invocations <= maxRetries

C4_Witness ==
  /\ rPc = "thrown"
  /\ maxRetries = MaxRetriesBound
  /\ invocations = maxRetries

\* C5: when every attempt fails, retryOperation throws the error the last
\* attempt raised.
C5_ThrowsErrorOfLastAttempt ==
  rPc = "thrown" => (invocations = maxRetries /\ outcome = raised)

C5_Witness ==
  /\ rPc = "thrown"
  /\ maxRetries >= 2
  /\ firstRaised # raised
  /\ outcome = raised

\* C6: the delay slept after failed attempt k (k < maxRetries) lies within
\* [baseDelay * 2^(k-1), baseDelay * 2^(k-1) * 1.3].
C6_DelayWithinBounds ==
  rPc = "sleep"
    => /\ attempt < maxRetries
       /\ baseDelay * (2 ^ (attempt - 1)) <= delay
       /\ 10 * delay <= 13 * baseDelay * (2 ^ (attempt - 1))

C6_Witness ==
  /\ rPc = "sleep"
  /\ attempt >= 3
  /\ delay > baseDelay * (2 ^ (attempt - 1))

\* C7 as claimed: the wait before attempt k (k > 1) is
\* baseDelay * 2^(k-1) * (1 + jitter) rounded down, and the wait before attempt
\* 2 is at least 2 * baseDelay. (During the sleep, k is attempt + 1.)
C7_WaitUsesExponentKMinusOne ==
  rPc = "sleep"
    => /\ 10000 * delay <= baseDelay * (2 ^ attempt) * (10000 + 3 * random)
       /\ baseDelay * (2 ^ attempt) * (10000 + 3 * random) < 10000 * (delay + 1)
       /\ attempt + 1 = 2 => delay >= 2 * baseDelay

\* C7 as amended: the wait before attempt k (k > 1) is
\* baseDelay * 2^(k-2) * (1 + jitter) rounded down, jitter in [0, 0.3), and the
\* wait before attempt 2 is at least baseDelay and less than 2 * baseDelay.
C7_WaitUsesExponentKMinusTwo ==
  rPc = "sleep"
    => /\ 0 <= random /\ random < 1000
       /\ 10000 * delay <= baseDelay * (2 ^ (attempt - 1)) * (10000 + 3 * random)
       /\ baseDelay * (2 ^ (attempt - 1)) * (10000 + 3 * random) < 10000 * (delay + 1)
       /\ attempt + 1 = 2 => (baseDelay <= delay /\ delay < 2 * baseDelay)

C7_Witness ==
  /\ rPc = "sleep"
  /\ attempt + 1 = 2
  /\ random > 0
  /\ baseDelay < delay
  /\ delay < 2 * baseDelay

(***************************************************************************)
(* Claims about executeWithTimeout                                         *)
(***************************************************************************)
\* executeWithTimeout's timer has rejected generate call c while
\* agentExecutor.invoke() of that call is still pending
TimedOut(c) == gen[c] = "failed" /\ agent[c] \in {"llm", "tool"}

\* C12: once the outer timeout has been raised, the timed-out invocation starts
\* no further tool call and mints and stores no further embedding (no change of
\* the cache or of the id counter made by it).
C12_TimedOutInvocationStops ==
  [][\A c \in Calls :
       TimedOut(c)
         => /\ ~(agent[c] = "llm" /\ tool'[c] # tool[c])
            /\ returnedIds'[c] = returnedIds[c]]_vars

(***************************************************************************)
(* createGenerateEmbeddingTool, followed step by step: the generateEmbedding *)
(* calls of one generate call, each with its retryOperation attempts and   *)
(* the two embedQuery requests of every attempt.                           *)
(***************************************************************************)
\* largest length of a vector a provider answers with (configured: 3072, 1536)
MaxVecLen == 2
\* generateEmbedding calls the agent of one generate call makes
MaxEmbeddingCalls == 2
\* the maxRetries the tool hands to retryOperation
EmbeddingMaxRetries == 5

VecLens == 1..MaxVecLen
\* the numbers a vector may hold
Components == {0, 1}
VectorsOfLen(n) == [1..n -> Components]
\* the vector this run's provider answers with, when its length is n
embedQueryResult(n) == [i \in 1..n |-> 0]

OtherDim(d) == IF d = BooksDim THEN VideosDim ELSE BooksDim

\* an attempt that issues again only the request that was rejected
issueRejectedRequests ==
  /\ eReq' = [d \in Dims |-> IF eReq[d] = "rejected" THEN "pending" ELSE eReq[d]]
  /\ eVec' = eVec
  /\ eIssued' = [d \in Dims |-> IF eReq[d] = "rejected" THEN eIssued[d] + 1 ELSE eIssued[d]]

\* one attempt's Promise.all([embeddings.embedQuery(text),
\* videoEmbeddings.embedQuery(text)]): both requests go out
issueRequests ==
  /\ eReq' = [d \in Dims |-> "pending"]
  /\ eVec' = [d \in Dims |-> NoVec]
  /\ eIssued' = [d \in Dims |-> eIssued[d] + 1]

\* the tool response with the vectors put into it
embeddingResponseWithVectors(embeddingId, embedding3072, embedding1536) ==
  [embeddingId |-> embeddingId,
   dimensions |-> [books |-> embedding3072, videos |-> embedding1536],
   message |-> <<"Dual embeddings generated and cached as ", embeddingId, ": ",
                 Len(embedding3072), "D for books, ", Len(embedding1536),
                 "D for videos">>]

\* the object the operation returns: { embeddingId, dimensions, message }
embeddingResponse(embeddingId, embedding3072, embedding1536) ==
  [embeddingId |-> embeddingId,
   dimensions |-> [books |-> Len(embedding3072), videos |-> Len(embedding1536)],
   message |-> <<"Dual embeddings generated and cached as ", embeddingId, ": ",
                 Len(embedding3072), "D for books, ", Len(embedding1536),
                 "D for videos">>]

\* the agent requests generateEmbedding({ text }): retryOperation's first attempt
generateEmbeddingInvoked ==
  /\ ePc \in {"idle", "returned"}
  /\ eCalls < MaxEmbeddingCalls
  /\ eCalls' = eCalls + 1
  /\ ePc' = "attempt"
  /\ eAttempt' = 1
  /\ eReq' = [d \in Dims |-> "pending"]
  /\ eVec' = [d \in Dims |-> NoVec]
  /\ eIssued' = [d \in Dims |-> 1]
  /\ eFailed' = [d \in Dims |-> 0]
  /\ eSucceeded' = [d \in Dims |-> 0]
  /\ eResponse' = "none"
  /\ eResponseTwin' = "none"
  /\ UNCHANGED <<cacheVars, retryVars, searchVars, entryVars>>

\* one embedQuery request resolves with a vector of n numbers; when it is the
\* second of its attempt Promise.all resolves and the operation runs to its end:
\* mint the id, store both vectors, return the metadata. The twin run is handed
\* vectors of the same lengths and any contents.
embedQueryResolves(d, n) ==
  /\ ePc = "attempt"
  /\ eReq[d] = "pending"
  /\ eReq' = [eReq EXCEPT ![d] = "resolved"]
  /\ eVec' = [eVec EXCEPT ![d] = embedQueryResult(n)]
  /\ eSucceeded' = [eSucceeded EXCEPT ![d] = @ + 1]
  /\ IF eReq[OtherDim(d)] = "resolved"
       THEN LET embeddingId == preIncrement(embeddingCounter)
                embedding3072 == eVec'[BooksDim]
                embedding1536 == eVec'[VideosDim]
            IN /\ embeddingCounter' = embeddingId
               /\ embeddingCache' =
                    cacheSet(cacheSet(embeddingCache,
                                      CacheKey(embeddingId, BooksDim), embedding3072),
                             CacheKey(embeddingId, VideosDim), embedding1536)
               /\ eResponse' = embeddingResponse(embeddingId, embedding3072, embedding1536)
               /\ \E twin3072 \in VectorsOfLen(Len(embedding3072)),
                     twin1536 \in VectorsOfLen(Len(embedding1536)) :
                    eResponseTwin' = embeddingResponse(embeddingId, twin3072, twin1536)
               /\ ePc' = "returned"
       ELSE UNCHANGED <<embeddingCache, embeddingCounter, eResponse, eResponseTwin, ePc>>
  /\ UNCHANGED <<eCalls, eAttempt, eIssued, eFailed>>
  /\ UNCHANGED <<gen, agent, tool, toolCalls, returnedIds, clears, sinceClear>>
  /\ UNCHANGED <<retryVars, searchVars, entryVars>>

\* a rejected request with the id minted before the requests went out
embedQueryRejectsBurnsId(d) ==
  /\ ePc = "attempt"
  /\ eReq[d] = "pending"
  /\ eReq' = [eReq EXCEPT ![d] = "rejected"]
  /\ eFailed' = [eFailed EXCEPT ![d] = @ + 1]
  /\ ePc' = IF eAttempt = EmbeddingMaxRetries THEN "thrown" ELSE "sleep"
  /\ embeddingCounter' = embeddingCounter + 1
  /\ UNCHANGED <<eCalls, eAttempt, eVec, eIssued, eSucceeded, eResponse, eResponseTwin>>
  /\ UNCHANGED <<embeddingCache, gen, agent, tool, toolCalls, returnedIds, clears, sinceClear>>
  /\ UNCHANGED <<retryVars, searchVars, entryVars>>

\* one embedQuery request is rejected: Promise.all rejects at once and
\* retryOperation's catch either gives up or starts the sleep (the attempt's
\* other request, if still pending, is left to finish unobserved)
embedQueryRejects(d) ==
  /\ ePc = "attempt"
  /\ eReq[d] = "pending"
  /\ eReq' = [eReq EXCEPT ![d] = "rejected"]
  /\ eFailed' = [eFailed EXCEPT ![d] = @ + 1]
  /\ ePc' = IF eAttempt = EmbeddingMaxRetries THEN "thrown" ELSE "sleep"
  /\ UNCHANGED <<eCalls, eAttempt, eVec, eIssued, eSucceeded, eResponse, eResponseTwin>>
  /\ UNCHANGED <<cacheVars, retryVars, searchVars, entryVars>>

\* the sleep ends: the next attempt calls the operation again
embeddingSleepEnds ==
  /\ ePc = "sleep"
  /\ ePc' = "attempt"
  /\ eAttempt' = eAttempt + 1
  /\ issueRequests
  /\ UNCHANGED <<eCalls, eFailed, eSucceeded, eResponse, eResponseTwin>>
  /\ UNCHANGED <<cacheVars, retryVars, searchVars, entryVars>>

EmbedNext ==
  \/ generateEmbeddingInvoked
  \/ \E d \in Dims, n \in VecLens : embedQueryResolves(d, n)
  \/ \E d \in Dims : embedQueryRejects(d)
  \/ embeddingSleepEnds

SpecEmbed == Init /\ [][EmbedNext]_vars

C14_OnlyFailedRequestIssuedAgain ==
  \A d \in Dims : eIssued[d] <= eFailed[d] + 1

\* C14 as amended: the two requests are retried together as one operation; every
\* attempt issues both, at most EmbeddingMaxRetries attempts are made, and a
\* request that succeeded is issued again when the other one failed.
C14_BothRequestsIssuedEveryAttempt ==
  /\ eAttempt <= EmbeddingMaxRetries
  /\ \A d \in Dims : eIssued[d] = eAttempt
  /\ \A d \in Dims : eFailed[d] + eSucceeded[d] <= eIssued[d]

C14_Witness ==
  /\ ePc = "attempt"
  /\ eAttempt = 2
  /\ eSucceeded[BooksDim] = 1
  /\ eFailed[BooksDim] = 0
  /\ eFailed[VideosDim] = 1
  /\ eIssued[BooksDim] = 2
  /\ eReq[BooksDim] = "pending"

(***************************************************************************)
(* The pool users, followed step by step: testPgConnectionWithRetry in     *)
(* onModuleInit, then one generate call whose agent runs vectorSearch and  *)
(* videoSearch, each with its retryOperation attempts, its pool client and *)
(* its 20 s race.                                                          *)
(***************************************************************************)
\* tool rounds the agent takes (the executor allows maxIterations = 15)
MaxRounds == 2
\* largest limit the agent supplies
MaxLimit == 5
\* the maxRetries the probe and both search tools hand to retryOperation
SearchMaxRetries == 5
\* Math.min(limit, 4)
MaxPassages == 4
\* vectorSearch's default limit
DefaultLimit == 3
\* videoSearch's default limit
VideoDefaultLimit == 4
\* this.truncateContent(result.content, 500)
TruncateLength == 500
\* awaits inside the probe's try block: registerTypes and three queries
ProbeAwaits == 4

\* the one generate call followed here
TheCall == CHOOSE c \in Calls : \A d \in Calls : c <= d

Limits == {NoLimit} \cup {<<n>> : n \in 1..MaxLimit}
limitOr(limit, default) == IF limit = NoLimit THEN default ELSE limit[1]
Min(a, b) == IF a <= b THEN a ELSE b

\* a string of n characters
Content(n) == [i \in 1..n |-> "x"]
Ellipsis == <<".", ".", ".">>
\* the content lengths of the rows the document store holds, best match first
ContentLens == <<600, 3, 501, 500, 0>>
DocumentRow(i) ==
  [id |-> i, content |-> Content(ContentLens[((i - 1) % Len(ContentLens)) + 1])]
\* what match_documents answers with when n rows match
DocumentRows(n) == [i \in 1..n |-> DocumentRow(i)]

truncateContent(content, maxLength) ==
  IF Len(content) = 0 \/ Len(content) <= maxLength
    THEN content
    ELSE SubSeq(content, 1, maxLength) \o Ellipsis

\* the limit passed on as it was supplied
uncappedLimit(limit) == limit

\* const cappedLimit = Math.min(limit, 4)
cappedLimit(limit) == Min(limit, MaxPassages)

\* the formattedResults array: built with truncated content, never read
formattedResults(results) ==
  [i \in DOMAIN results |->
     [index |-> i, content |-> truncateContent(results[i].content, TruncateLength)]]

\* the toolResponse template string: one numbered entry per result, with
\* ${result.content} under FULL CONTENT
vectorSearchResponse(results) ==
  [kind |-> "documents", count |-> Len(results),
   entries |-> [i \in DOMAIN results |->
                  [index |-> i, book_id |-> results[i].id, content |-> results[i].content]]]

\* videoSearch formatting an empty result like any other
videoSearchResponseNoSentinel(videos) ==
  [kind |-> "videos", count |-> Len(videos)]

\* 'No relevant videos found. ...' for zero rows, the videoToolResponse template
\* string otherwise
videoSearchResponse(videos) ==
  IF Len(videos) = 0
    THEN [kind |-> "noVideos"]
    ELSE [kind |-> "videos", count |-> Len(videos)]

\* the finally block with the release left out
finallyKeepsClient(r, checkedOut) == [user |-> r, pool |-> checkedOut]

\* finally { if (client) client.release() }  (the probe: client.release(), with
\* client always assigned): the user's record and the pool's count afterwards
finallyRelease(r, checkedOut) ==
  IF r.client
    THEN [user |-> [r EXCEPT !.client = FALSE], pool |-> checkedOut - 1]
    ELSE [user |-> r, pool |-> checkedOut]

\* a catch that lets an attempt that timed out go round once more after the last
attemptFailedTimeoutNotCounted(u, r, exit) ==
  IF r.attempt < SearchMaxRetries \/ (exit = "timeout" /\ r.attempt = SearchMaxRetries)
    THEN [r EXCEPT !.pc = "sleep", !.exit = exit]
    ELSE IF u = "videoSearch"
           THEN [r EXCEPT !.pc = "returned", !.exit = exit,
                          !.response = [kind |-> "unavailable", cause |-> "query"]]
           ELSE [r EXCEPT !.pc = "threw", !.exit = exit,
                          !.response = [kind |-> "error", cause |-> "query"]]

\* retryOperation's catch after a failed attempt: sleep, or give up. Giving up,
\* the probe and vectorSearch throw; videoSearch's catch returns the error text.
attemptFailed(u, r, exit) ==
  IF r.attempt < SearchMaxRetries
    THEN [r EXCEPT !.pc = "sleep", !.exit = exit]
    ELSE IF u = "videoSearch"
           THEN [r EXCEPT !.pc = "returned", !.exit = exit,
                          !.response = [kind |-> "unavailable", cause |-> "query"]]
           ELSE [r EXCEPT !.pc = "threw", !.exit = exit,
                          !.response = [kind |-> "error", cause |-> "query"]]

\* retryOperation calls the operation: a new client variable, and the await of
\* this.pgPool.connect()
attemptStarts(r) ==
  [r EXCEPT !.pc = "connect", !.attempt = @ + 1, !.client = FALSE, !.exit = "none"]

\* vectorSearch without the guard on the lookup's result
vectorSearchInvokedUnguarded(embeddingId, limit) ==
  LET embedding == cacheGet(vectorSearchKey(embeddingId))
  IN [NoCall EXCEPT !.pc = "delay", !.id = embeddingId, !.limit = limit,
                    !.lookup = IF embedding = NoVec THEN "miss" ELSE "hit",
                    !.vec = embedding,
                    !.queryLimit = cappedLimit(limitOr(limit, DefaultLimit))]

\* vectorSearch({ embeddingId, limit = 3 }) up to its first await: the lookup,
\* the throw on a miss (rethrown by the tool's catch), the cap, the 500 ms delay
vectorSearchInvoked(embeddingId, limit) ==
  LET embedding == cacheGet(vectorSearchKey(embeddingId))
  IN IF embedding = NoVec
       THEN [NoCall EXCEPT !.pc = "threw", !.id = embeddingId, !.limit = limit,
                           !.lookup = "miss",
                           !.response = [kind |-> "error", cause |-> "notInCache"]]
       ELSE [NoCall EXCEPT !.pc = "delay", !.id = embeddingId, !.limit = limit,
                           !.lookup = "hit", !.vec = embedding,
                           !.queryLimit = cappedLimit(limitOr(limit, DefaultLimit))]

\* videoSearch({ embeddingId, limit = 4 }) up to its first await: the 500 ms delay
videoSearchInvoked(embeddingId, limit) ==
  [NoCall EXCEPT !.pc = "delay", !.id = embeddingId, !.limit = limit,
                 !.queryLimit = limitOr(limit, VideoDefaultLimit)]

\* onModuleInit calls testPgConnectionWithRetry: the first attempt's connect()
probeStarts ==
  /\ users["probe"].pc = "idle"
  /\ gen[TheCall] = "idle"
  /\ users' = [users EXCEPT !["probe"] = attemptStarts(@)]
  /\ UNCHANGED <<pgCheckedOut, probeStep, rounds, steps, output, pgInFlight>>
  /\ UNCHANGED <<cacheVars, retryVars, embedVars, entryVars>>

\* pgPool.connect() resolves: the client is checked out. The probe goes on to
\* its try block, a search tool sends its query and awaits the race with the
\* 20 s timer.
connectResolves(u) ==
  /\ users[u].pc = "connect"
  /\ users' = [users EXCEPT ![u] =
                 [@ EXCEPT !.pc = "query", !.client = TRUE]]
  /\ pgCheckedOut' = pgCheckedOut + 1
  /\ probeStep' = IF u = "probe" THEN 1 ELSE probeStep
  /\ UNCHANGED <<rounds, steps, output, pgInFlight>>
  /\ UNCHANGED <<cacheVars, retryVars, embedVars, entryVars>>

\* pgPool.connect() rejects: no client was assigned, the finally block has
\* nothing to release
connectRejects(u) ==
  /\ users[u].pc = "connect"
  /\ LET f == finallyRelease(users[u], pgCheckedOut)
     IN /\ users' = [users EXCEPT ![u] = attemptFailed(u, f.user, "connect")]
        /\ pgCheckedOut' = f.pool
  /\ UNCHANGED <<probeStep, rounds, steps, output, pgInFlight>>
  /\ UNCHANGED <<cacheVars, retryVars, embedVars, entryVars>>

\* an await of the probe's try block resolves and the check after it passes:
\* on to the next one, or out through finally after the last
probeAwaitResolves ==
  /\ users["probe"].pc = "query"
  /\ IF probeStep < ProbeAwaits
       THEN /\ probeStep' = probeStep + 1
            /\ UNCHANGED <<users, pgCheckedOut>>
       ELSE LET f == finallyRelease(users["probe"], pgCheckedOut)
            IN /\ users' = [users EXCEPT !["probe"] =
                              [f.user EXCEPT !.pc = "returned", !.exit = "success"]]
               /\ pgCheckedOut' = f.pool
               /\ probeStep' = 0
  /\ UNCHANGED <<rounds, steps, output, pgInFlight>>
  /\ UNCHANGED <<cacheVars, retryVars, embedVars, entryVars>>

\* an await of the probe's try block rejects, or the check after it throws
\* (extension or functions missing): out through finally
probeAwaitFails ==
  /\ users["probe"].pc = "query"
  /\ LET f == finallyRelease(users["probe"], pgCheckedOut)
     IN /\ users' = [users EXCEPT !["probe"] = attemptFailed("probe", f.user, "error")]
        /\ pgCheckedOut' = f.pool
  /\ probeStep' = 0
  /\ UNCHANGED <<rounds, steps, output, pgInFlight>>
  /\ UNCHANGED <<cacheVars, retryVars, embedVars, entryVars>>

\* the probe has returned: onModuleInit goes on to initializeAgentWithRetry and
\* completes; the probe's call and its locals are gone
onModuleInitCompletes ==
  /\ users["probe"].pc = "returned"
  /\ users' = [users EXCEPT !["probe"] = [NoCall EXCEPT !.pc = "done"]]
  /\ UNCHANGED <<pgCheckedOut, probeStep, rounds, steps, output, pgInFlight>>
  /\ UNCHANGED <<cacheVars, retryVars, embedVars, entryVars>>

\* generate() is called once onModuleInit has completed
searchGenerateEnter(c) ==
  /\ users["probe"].pc = "done"
  /\ generateEnter(c, FALSE)
  /\ UNCHANGED <<retryVars, embedVars, searchVars, entryVars>>

\* a generateEmbedding round (followed step by step above): it mints the id,
\* stores both vectors and returns the metadata
searchEmbeddingRound(c) ==
  /\ agent[c] = "llm"
  /\ rounds < MaxRounds
  /\ Len(returnedIds[c]) < MaxEmbeddingCalls
  /\ rounds' = rounds + 1
  /\ steps' = steps \cup {[tool |-> "generateEmbedding", kind |-> "embedding"]}
  /\ LET embeddingId == preIncrement(embeddingCounter)
         n == Len(returnedIds[c]) + 1
     IN /\ embeddingCounter' = embeddingId
        /\ storeEmbeddings(c, n, embeddingId)
        /\ returnedIds' = [returnedIds EXCEPT ![c] = Append(@, embeddingId)]
        /\ sinceClear' = sinceClear \cup {embeddingId}
  /\ UNCHANGED <<gen, agent, tool, toolCalls, clears>>
  /\ UNCHANGED <<users, pgCheckedOut, probeStep, output, pgInFlight>>
  /\ UNCHANGED <<retryVars, embedVars, entryVars>>

\* the model requests a tool whose name is not among the tools the executor was
\* built with: the executor has no tool to invoke, hands the model the text
\* "<name> is not a valid tool, try another one." as the round's observation,
\* and the model takes its next turn
unknownToolRequested(c) ==
  /\ agent[c] = "llm"
  /\ rounds < MaxRounds
  /\ rounds' = rounds + 1
  /\ steps' = steps \cup {[tool |-> "unknownFunction", kind |-> "notValidTool"]}
  /\ UNCHANGED <<users, pgCheckedOut, probeStep, output, pgInFlight>>
  /\ UNCHANGED <<cacheVars, retryVars, embedVars, entryVars>>

\* the model requests search tools in one round; the executor invokes them
\* together and awaits them all
searchToolsRequested(c, requested) ==
  /\ agent[c] = "llm"
  /\ rounds < MaxRounds
  /\ requested # {}
  /\ rounds' = rounds + 1
  /\ agent' = [agent EXCEPT ![c] = "tool"]
  /\ \E embeddingId \in AgentIds(c), limit \in Limits :
       users' = [u \in Users |->
                   IF u \notin requested THEN users[u]
                   ELSE IF u = "vectorSearch"
                          THEN vectorSearchInvoked(embeddingId, limit)
                          ELSE videoSearchInvoked(embeddingId, limit)]
  /\ UNCHANGED <<embeddingCache, embeddingCounter, gen, tool, toolCalls, returnedIds,
                 clears, sinceClear>>
  /\ UNCHANGED <<pgCheckedOut, probeStep, steps, output, pgInFlight>>
  /\ UNCHANGED <<retryVars, embedVars, entryVars>>

\* the 500 ms delay of a search tool ends. vectorSearch starts retryOperation;
\* videoSearch first looks its vector up, and on a miss throws into its own
\* catch, which returns the error text.
searchDelayEnds(u) ==
  /\ u \in Searchers
  /\ users[u].pc = "delay"
  /\ LET r == [users[u] EXCEPT !.delays = @ + 1]
         embedding == cacheGet(videoSearchKey(r.id))
     IN users' = [users EXCEPT ![u] =
          IF u = "vectorSearch"
            THEN attemptStarts(r)
            ELSE IF embedding = NoVec
                   THEN [r EXCEPT !.pc = "returned", !.lookup = "miss",
                           !.response = [kind |-> "unavailable", cause |-> "notInCache"]]
                   ELSE attemptStarts([r EXCEPT !.lookup = "hit", !.vec = embedding])]
  /\ UNCHANGED <<pgCheckedOut, probeStep, rounds, steps, output, pgInFlight>>
  /\ UNCHANGED <<cacheVars, retryVars, embedVars, entryVars>>

\* the store answers the query with n rows: the client is released, the rows
\* are formatted and the tool returns its text
queryResolves(u, n) ==
  /\ u \in Searchers
  /\ users[u].pc = "query"
  /\ n <= users[u].queryLimit
  /\ LET rows == DocumentRows(n)
         f == finallyRelease(users[u], pgCheckedOut)
     IN /\ users' = [users EXCEPT ![u] =
                       [f.user EXCEPT
                          !.pc = "returned", !.exit = "success",
                          !.resolved = @ + 1, !.rowCount = n,
                          !.response = IF u = "vectorSearch"
                                         THEN vectorSearchResponse(rows)
                                         ELSE videoSearchResponse(rows)]]
        /\ pgCheckedOut' = f.pool
  /\ UNCHANGED <<probeStep, rounds, steps, output, pgInFlight>>
  /\ UNCHANGED <<cacheVars, retryVars, embedVars, entryVars>>

\* the query is rejected, or the 20 s timer wins the race while the query is
\* still running: catch, then finally releases the client. Nothing cancels the
\* query the race lost to the timer: it runs on, on the released client.
queryFails(u, timedOut) ==
  /\ u \in Searchers
  /\ users[u].pc = "query"
  /\ LET f == finallyRelease(users[u], pgCheckedOut)
     IN /\ users' = [users EXCEPT ![u] =
                       attemptFailed(u, f.user, IF timedOut THEN "timeout" ELSE "error")]
        /\ pgCheckedOut' = f.pool
  /\ pgInFlight' = (pgInFlight \/ timedOut)
  /\ UNCHANGED <<probeStep, rounds, steps, output>>
  /\ UNCHANGED <<cacheVars, retryVars, embedVars, entryVars>>

\* the store finishes the last query the timer had overtaken; the result goes
\* to a promise nobody awaits
overtakenQueryCompletes ==
  /\ pgInFlight
  /\ pgInFlight' = FALSE
  /\ UNCHANGED <<users, pgCheckedOut, probeStep, rounds, steps, output>>
  /\ UNCHANGED <<cacheVars, retryVars, embedVars, entryVars>>

\* retryOperation's sleep ends: the next attempt
searchSleepEnds(u) ==
  /\ users[u].pc = "sleep"
  /\ users' = [users EXCEPT ![u] = attemptStarts(@)]
  /\ UNCHANGED <<pgCheckedOut, probeStep, rounds, steps, output, pgInFlight>>
  /\ UNCHANGED <<cacheVars, retryVars, embedVars, entryVars>>

\* a tool of the round has thrown: agentExecutor.invoke() rejects and generate()
\* throws; a tool still running is left running
searchToolThrew(c) ==
  /\ agent[c] = "tool"
  /\ \E u \in Searchers : users[u].pc = "threw"
  /\ agent' = [agent EXCEPT ![c] = "error"]
  /\ generateSettles(c, "failed")
  /\ UNCHANGED <<embeddingCache, embeddingCounter, tool, toolCalls, returnedIds,
                 clears, sinceClear>>
  /\ UNCHANGED <<retryVars, embedVars, searchVars, entryVars>>

\* every tool of the round has returned: their texts go into the scratchpad and
\* the model takes its next turn
searchToolsReturned(c) ==
  /\ agent[c] = "tool"
  /\ \A u \in Searchers : users[u].pc \in {"idle", "returned"}
  /\ agent' = [agent EXCEPT ![c] = "llm"]
  /\ steps' = steps \cup {[tool |-> u, kind |-> users[u].response.kind] :
                            u \in {v \in Searchers : users[v].pc = "returned"}}
  /\ users' = [u \in Users |-> IF u \in Searchers THEN NoCall ELSE users[u]]
  /\ UNCHANGED <<embeddingCache, embeddingCounter, gen, tool, toolCalls, returnedIds,
                 clears, sinceClear>>
  /\ UNCHANGED <<pgCheckedOut, probeStep, rounds, output, pgInFlight>>
  /\ UNCHANGED <<retryVars, embedVars, entryVars>>

\* what the model may put into "video_references" of its final answer
VideoReferenceOutputs ==
  { [isArray |-> TRUE, items |-> <<>>],
    [isArray |-> TRUE, items |-> <<[video_id |-> "v1", time_start |-> "0", time_end |-> "9"]>>],
    [isArray |-> FALSE, items |-> <<>>] }

\* @IsArray() on video_references (the entries offered above are well formed)
validVideoReferences(video_references) == video_references.isArray

\* the model answers with its final text: generate() parses it and
\* validateAndTransformResponse accepts or rejects it (restValid: the text
\* parses and the other fields pass)
searchFinalAnswer(c, video_references, restValid) ==
  /\ agent[c] = "llm"
  /\ agent' = [agent EXCEPT ![c] = "done"]
  /\ output' = video_references
  /\ generateSettles(c, IF restValid /\ validVideoReferences(video_references)
                          THEN "returned" ELSE "failed")
  /\ UNCHANGED <<embeddingCache, embeddingCounter, tool, toolCalls, returnedIds,
                 clears, sinceClear>>
  /\ UNCHANGED <<users, pgCheckedOut, probeStep, rounds, steps, pgInFlight>>
  /\ UNCHANGED <<retryVars, embedVars, entryVars>>

SearchNext ==
  \/ probeStarts
  \/ \E u \in Users : connectResolves(u)
  \/ \E u \in Users : connectRejects(u)
  \/ probeAwaitResolves
  \/ probeAwaitFails
  \/ onModuleInitCompletes
  \/ searchGenerateEnter(TheCall)
  \/ searchEmbeddingRound(TheCall)
  \/ unknownToolRequested(TheCall)
  \/ \E requested \in SUBSET Searchers : searchToolsRequested(TheCall, requested)
  \/ \E u \in Searchers : searchDelayEnds(u)
  \/ \E u \in Searchers, n \in 0..MaxLimit : queryResolves(u, n)
  \/ \E u \in Searchers, timedOut \in BOOLEAN : queryFails(u, timedOut)
  \/ overtakenQueryCompletes
  \/ \E u \in Users : searchSleepEnds(u)
  \/ searchToolThrew(TheCall)
  \/ searchToolsReturned(TheCall)
  \/ \E video_references \in VideoReferenceOutputs, restValid \in BOOLEAN :
       searchFinalAnswer(TheCall, video_references, restValid)

SpecSearch == Init /\ [][SearchNext]_vars

(***************************************************************************)
(* Claims about the pool users and the search tools                        *)
(***************************************************************************)
\* C13: every client a query attempt or the probe acquires is released exactly
\* once on every exit path of the attempt (success, error, 20 s timeout): a
\* client is held only while its attempt awaits its query, the pool's count is
\* the number of clients held, and none is checked out once every call is over.
C13_EveryClientReleasedOnce ==
  /\ pgCheckedOut = Cardinality({u \in Users : users[u].client})
  /\ \A u \in Users : users[u].client => users[u].pc = "query"
  /\ (\A u \in Users : users[u].pc \in {"idle", "returned", "threw", "done"})
       => pgCheckedOut = 0

C13_Witness ==
  /\ users["vectorSearch"].pc = "threw"
  /\ users["vectorSearch"].attempt = SearchMaxRetries
  /\ users["vectorSearch"].exit = "timeout"
  /\ users["videoSearch"].pc = "returned"
  /\ users["videoSearch"].exit = "success"
  /\ pgCheckedOut = 0

\* C15: vectorSearch called with an id that has no 3072 entry fails at once: it
\* throws without the delay, without any retryOperation attempt (so without a
\* connect and without a query) and without a client.
C15_VectorSearchMissFailsAtOnce ==
  LET r == users["vectorSearch"]
  IN r.lookup = "miss"
       => /\ r.pc = "threw"
          /\ r.response = [kind |-> "error", cause |-> "notInCache"]
          /\ r.delays = 0
          /\ r.attempt = 0
          /\ r.resolved = 0
          /\ ~r.client

C15_Witness ==
  /\ users["vectorSearch"].lookup = "miss"
  /\ users["vectorSearch"].pc = "threw"
  /\ agent[TheCall] = "error"
  /\ gen[TheCall] = "failed"

\* C16: videoSearch called with an id that has no 1536 entry ends in an error
\* outcome (it throws, it does not return a value), at once and without any
\* retryOperation attempt.
C16_VideoSearchMissEndsInError ==
  LET r == users["videoSearch"]
  IN r.lookup = "miss"
       => /\ r.pc = "threw"
          /\ r.delays = 0
          /\ r.attempt = 0

\* C17: every content fragment in the text vectorSearch returns is the row's
\* content truncated to 500 characters plus an ellipsis.
C17_ContentFragmentsTruncated ==
  LET r == users["vectorSearch"]
  IN r.response.kind = "documents"
       => \A i \in DOMAIN r.response.entries :
            /\ Len(r.response.entries[i].content) <= TruncateLength + Len(Ellipsis)
            /\ r.response.entries[i].content
                 = formattedResults(DocumentRows(r.rowCount))[i].content

C19_ZeroRowsGiveSentinel ==
  LET r == users["videoSearch"]
  IN (r.resolved >= 1 /\ r.rowCount = 0)
       => /\ r.pc = "returned"
          /\ r.response = [kind |-> "noVideos"]
          /\ r.resolved = 1
          /\ r.exit = "success"

C19_Witness ==
  /\ gen[TheCall] = "returned"
  /\ [tool |-> "videoSearch", kind |-> "noVideos"] \in steps
  /\ output = [isArray |-> TRUE, items |-> <<>>]

\* C20: when the model requests a tool that is not registered, the generate
\* call fails at once: the agent invocation has ended in an error and no
\* further model turn is taken.
C20_UnknownToolFailsGenerate ==
  [tool |-> "unknownFunction", kind |-> "notValidTool"] \in steps
    => /\ agent[TheCall] = "error"
       /\ gen[TheCall] = "failed"

(***************************************************************************)
(* Claims about the agent's tool rounds                                    *)
(***************************************************************************)
\* a call of search tool u is being executed
Executing(u) == users[u].pc \in {"delay", "connect", "query", "sleep"}

\* C22: within one generate call at most one tool execution is in progress at
\* any time: the tools the model requests are executed one after another.
C22_OneToolExecutionAtATime ==
  Cardinality({u \in Searchers : Executing(u)}) <= 1

\* C29: a similarity search that fails on every one of its 5 attempts is fatal:
\* the tool call of vectorSearch or videoSearch ends by throwing, so that the
\* enclosing generate call fails.
C29_ExhaustedSearchIsFatal ==
  \A u \in Searchers :
    (users[u].attempt = SearchMaxRetries
       /\ users[u].exit \in {"connect", "error", "timeout"}
       /\ users[u].pc # "sleep")
      => users[u].pc = "threw"

(***************************************************************************)
(* generate(): the agent's output, JSON extraction and validation          *)
(***************************************************************************)
MaxTextLen == 4
MaxDescLen == 2
\* markdown images in a question and its options
MaxImages == 2
MaxIterations == 15

\* A text is a sequence of tokens: braces, white space, a word of commentary,
\* "p" for the fields of a response object and "7" for a number literal.
Tokens == {"{", "}", " ", "w", "p", "7"}
Texts == UNION {[1..n -> Tokens] : n \in 0..MaxTextLen}
\* 'Agent stopped due to max iterations.'
StopText == <<"w", " ", "w">>

RECURSIVE trimStart(_)
trimStart(s) == IF s # <<>> /\ Head(s) = " " THEN trimStart(Tail(s)) ELSE s

RECURSIVE trimEnd(_)
trimEnd(s) ==
  IF s # <<>> /\ s[Len(s)] = " " THEN trimEnd(SubSeq(s, 1, Len(s) - 1)) ELSE s

trim(s) == trimEnd(trimStart(s))

\* String.prototype.indexOf, lastIndexOf and substring, counting from 0
indexOf(s, t) ==
  IF \E i \in 1..Len(s) : s[i] = t
    THEN (CHOOSE i \in 1..Len(s) : s[i] = t /\ \A j \in 1..(i - 1) : s[j] # t) - 1
    ELSE -1

lastIndexOf(s, t) ==
  IF \E i \in 1..Len(s) : s[i] = t
    THEN (CHOOSE i \in 1..Len(s) :
            s[i] = t /\ \A j \in (i + 1)..Len(s) : s[j] # t) - 1
    ELSE -1

indexOfAfter(s, t, from) ==
  IF \E i \in (from + 1)..Len(s) : s[i] = t
    THEN (CHOOSE i \in (from + 1)..Len(s) :
            s[i] = t /\ \A j \in (from + 1)..(i - 1) : s[j] # t) - 1
    ELSE -1

substring(s, start, end) == SubSeq(s, start + 1, end)

\* the object boundaries end at the first closing brace
extractJsonFirstClose(responseText) ==
  LET jsonString == trim(responseText)
      jsonStart == indexOf(jsonString, "{")
      jsonEnd == indexOfAfter(jsonString, "}", jsonStart + 1)
  IN  IF jsonStart # -1 /\ jsonEnd # -1 /\ jsonEnd > jsonStart
        THEN substring(jsonString, jsonStart, jsonEnd + 1)
        ELSE jsonString

extractJson(responseText) ==
  LET jsonString == trim(responseText)
      jsonStart == indexOf(jsonString, "{")
      jsonEnd == lastIndexOf(jsonString, "}")
  IN  IF jsonStart # -1 /\ jsonEnd # -1 /\ jsonEnd > jsonStart
        THEN substring(jsonString, jsonStart, jsonEnd + 1)
        ELSE jsonString

\* JSON.parse: white space between tokens is insignificant; an object holds
\* the fields or nothing, a number literal is a value of its own
JSONparse(jsonString) ==
  LET tokens == SelectSeq(jsonString, LAMBDA t : t # " ")
  IN  CASE tokens = <<"{", "p", "}">> -> "fields"
        [] tokens = <<"{", "}">>      -> "emptyObject"
        [] tokens = <<"7">>           -> "number"
        [] OTHER                      -> "SyntaxError"

Num(h) == [type |-> "number", halves |-> h, chars |-> <<>>]
Str(c) == [type |-> "string", halves |-> 0, chars |-> c]
Strings == UNION {[1..n -> {" ", "a"}] : n \in 0..MaxDescLen}
AnswerHalves == -2..8
AnswerValues == {Num(h) : h \in AnswerHalves} \cup {Str(<<"a">>), Undefined}
DescriptionValues == {Str(c) : c \in Strings} \cup {Num(2), Undefined}
Responses ==
  [answer : AnswerValues, ans_description : DescriptionValues,
   references : {"array", "undefined"}]

\* the value validation receives for what JSON.parse returned: a property of
\* an empty object or of a number is undefined
parsedResponse(parsed, fields) == IF parsed = "fields" THEN fields ELSE NoFields

\* class-validator's validate(dto): the properties whose decorators fail, in
\* the order of SolutionOutputDto
schemaErrors(dto) ==
  (IF dto.answer.type # "number" THEN <<"answer">> ELSE <<>>)
  \o (IF dto.ans_description.type # "string" THEN <<"ans_description">> ELSE <<>>)
  \o (IF dto.references # "array" THEN <<"references">> ELSE <<>>)

AnswerRangeMessage == "Answer must be between 0 and 3 (0-based index for options A-D)"
DescriptionEmptyMessage == "Answer description cannot be empty"

Error(type, message) == [type |-> type, message |-> message, origin |-> message]
\* an error built in a catch block from the message of the error caught
Rethrown(type, prefix, error) ==
  [type |-> type, message |-> <<prefix>> \o error.message, origin |-> error.origin]

descriptionEmptyNoTrim(d) == d.chars = <<>>

descriptionEmpty(d) == d.chars = <<>> \/ trim(d.chars) = <<>>

\* the error thrown inside validateAndTransformResponse's try, if any
validationError(dto) ==
  IF schemaErrors(dto) # <<>>
    THEN Error("Error", <<"Validation failed: ">> \o schemaErrors(dto))
  ELSE IF dto.answer.halves < 0 \/ dto.answer.halves > 6
    THEN Error("Error", <<AnswerRangeMessage>>)
  ELSE IF descriptionEmpty(dto.ans_description)
    THEN Error("Error", <<DescriptionEmptyMessage>>)
  ELSE NoError

validateAndTransformResponse(response) ==
  LET error == validationError(response)
  IN  IF error = NoError
        THEN [status |-> "returned", error |-> NoError, dto |-> response]
        ELSE [status |-> "failed",
              error |-> Rethrown("LLMGenerationError", "Invalid response format: ", error),
              dto |-> NoFields]


EmptyOutputMessage == "Agent returned empty output. This could be due to token limit exhaustion, iteration limit reached, database timeouts, or tool execution failures. Check verbose logs for details."

\* the catch block that ends generate()
generateCatch(error) ==
  Rethrown("LLMGenerationError", "Failed to generate solution: ", error)

Failed(error) == [status |-> "failed", error |-> error, dto |-> NoFields]

\* generate() from the resolution of agentExecutor.invoke to its return or throw
handleOutput(out, fields) ==
  IF out.kind \in {"undefined", "emptyArray"}
       \/ (out.kind = "text" /\ trim(out.text) = <<>>)
    THEN Failed(generateCatch(Error("LLMGenerationError", <<EmptyOutputMessage>>)))
  ELSE IF out.kind = "array"
    THEN Failed(generateCatch(Error("TypeError", <<"result.output.trim is not a function">>)))
  ELSE
    LET parsed == JSONparse(extractJson(out.text))
    IN  IF parsed = "SyntaxError"
          THEN Failed(generateCatch(
                 Rethrown("LLMGenerationError",
                          "Invalid JSON response from LangChain agent: ",
                          Error("SyntaxError", <<"Unexpected token">>))))
          ELSE LET validated == validateAndTransformResponse(parsedResponse(parsed, fields))
               IN  IF validated.status = "returned"
                     THEN validated
                     ELSE Failed(generateCatch(validated.error))

\* generate(question, systemMessage) is called with a question whose text
\* holds n markdown images: the cache is cleared, and with images in the text
\* processQuestionAndOptions is awaited
generateCalled(n) ==
  /\ aPc = "idle"
  /\ aPc' = "images"
  /\ aPending' = n
  /\ UNCHANGED <<aIterations, aStopped, aInvoked, aOutput, aFields, aJsonString, aOutcome>>
  /\ UNCHANGED <<cacheVars, retryVars, embedVars, searchVars, controllerVars, taggerVars>>

\* the download of the next image settles: axios.get resolves, rejects, or is
\* aborted by its 30 s timeout; a failure is logged and the loop goes on
imageDownloadSettles ==
  /\ aPc = "images"
  /\ aPending > 0
  /\ aPending' = aPending - 1
  /\ UNCHANGED <<aPc, aIterations, aStopped, aInvoked, aOutput, aFields, aJsonString,
                 aOutcome>>
  /\ UNCHANGED <<cacheVars, retryVars, embedVars, searchVars, controllerVars, taggerVars>>

\* no image is left to wait for: generate() calls agentExecutor.invoke
answerGenerateInvokes ==
  /\ aPc = "images"
  /\ aPending = 0
  /\ aPc' = "agent"
  /\ aInvoked' = aInvoked + 1
  /\ UNCHANGED <<aIterations, aStopped, aOutput, aFields, aJsonString, aOutcome>>
  /\ UNCHANGED <<cacheVars, retryVars, embedVars, searchVars, controllerVars, taggerVars, aPending>>

\* one round of the executor: the model asks for tools, they return
agentToolRound ==
  /\ aPc = "agent"
  /\ aIterations < MaxIterations
  /\ aIterations' = aIterations + 1
  /\ UNCHANGED <<aPc, aStopped, aInvoked, aOutput, aFields, aJsonString, aOutcome>>
  /\ UNCHANGED <<cacheVars, retryVars, embedVars, searchVars, controllerVars, taggerVars, aPending>>

\* invoke resolves with out; the executor's round counter ends with the invocation
invokeResolves(out, stopped) ==
  /\ aPc' = "output"
  /\ aOutput' = out
  /\ aStopped' = stopped
  /\ aIterations' = 0
  /\ UNCHANGED <<aInvoked, aFields, aJsonString, aOutcome>>
  /\ UNCHANGED <<cacheVars, retryVars, embedVars, searchVars, controllerVars, taggerVars, aPending>>

\* the model answers with a text and no tool call
agentFinalText(text) ==
  /\ aPc = "agent"
  /\ aIterations < MaxIterations
  /\ invokeResolves([kind |-> "text", text |-> text], FALSE)

\* the model's last message has no text content, or content parts instead
agentFinalOther(kind) ==
  /\ aPc = "agent"
  /\ aIterations < MaxIterations
  /\ invokeResolves([kind |-> kind, text |-> <<>>], FALSE)

\* at the iteration limit the executor lets the model write the answer
agentStopsAtLimitGenerate ==
  /\ aPc = "agent"
  /\ aIterations = MaxIterations
  /\ invokeResolves([kind |-> "text", text |-> <<"{", "p", "}">>], TRUE)

\* at the iteration limit the executor returns its fixed text
agentStopsAtLimit ==
  /\ aPc = "agent"
  /\ aIterations = MaxIterations
  /\ invokeResolves([kind |-> "text", text |-> StopText], TRUE)

generateFails(error) ==
  /\ aPc' = "failed"
  /\ aOutcome' = Failed(generateCatch(error))
  /\ aIterations' = 0
  /\ UNCHANGED <<aStopped, aInvoked, aOutput, aFields, aJsonString>>
  /\ UNCHANGED <<cacheVars, retryVars, embedVars, searchVars, controllerVars, taggerVars, aPending>>

\* a tool throws and the executor's invoke rejects
agentToolThrows ==
  /\ aPc = "agent"
  /\ aIterations < MaxIterations
  /\ generateFails(Error("Error", <<"Vector search failed after 5 attempts: ", "connect ECONNREFUSED">>))

\* executeWithTimeout awaiting the promise alone: no timer ever rejects
answerAwaitsWithoutTimer ==
  /\ FALSE
  /\ generateFails(Error("Error", <<"LangChain execution timed out after 120000ms">>))

\* the 120 s timer of executeWithTimeout wins the race
answerTimeoutFires ==
  /\ aPc = "agent"
  /\ generateFails(Error("Error", <<"LangChain execution timed out after 120000ms">>))

\* the responses a text can stand for: "p" is any choice of fields
FieldsOf(out) ==
  IF out.kind = "text" /\ JSONparse(extractJson(out.text)) = "fields"
    THEN Responses ELSE {NoFields}

\* empty check, JSON extraction, parse and validation
generateHandlesOutput ==
  /\ aPc = "output"
  /\ \E fields \in FieldsOf(aOutput) :
       /\ aFields' = fields
       /\ aOutcome' = handleOutput(aOutput, fields)
  /\ aJsonString' = IF aOutput.kind = "text" /\ trim(aOutput.text) # <<>>
                      THEN extractJson(aOutput.text) ELSE <<>>
  /\ aPc' = aOutcome'.status
  /\ UNCHANGED <<aIterations, aStopped, aInvoked, aOutput>>
  /\ UNCHANGED <<cacheVars, retryVars, embedVars, searchVars, controllerVars, taggerVars, aPending>>

AnswerNext ==
  \/ \E n \in 0..MaxImages : generateCalled(n)
  \/ imageDownloadSettles
  \/ answerGenerateInvokes
  \/ agentToolRound
  \/ \E text \in Texts : agentFinalText(text)
  \/ \E kind \in {"undefined", "emptyArray", "array"} : agentFinalOther(kind)
  \/ agentStopsAtLimit
  \/ agentToolThrows
  \/ answerTimeoutFires
  \/ generateHandlesOutput

SpecAnswer == Init /\ [][AnswerNext]_vars


(***************************************************************************)
(* Claims about the outcome of generate()                                  *)
(***************************************************************************)
\* C21: if the agent uses all 15 iterations without a final text, generate
\* fails with an error and never returns a SolutionOutput.
C21_IterationLimitFailsGenerate ==
  aStopped =>
    /\ aPc \in {"output", "failed"}
    /\ aPc = "failed" => aOutcome.error.type = "LLMGenerationError"

C21_Witness == aStopped /\ aPc = "failed" /\ aInvoked = 1

\* generate has settled and its output went through validateAndTransformResponse
Validated ==
  /\ aPc \in {"returned", "failed"}
  /\ aOutput.kind = "text"
  /\ trim(aOutput.text) # <<>>
  /\ JSONparse(aJsonString) # "SyntaxError"

IsInteger(v) == v.type = "number" /\ v.halves % 2 = 0

\* C24: a response is accepted only if its answer is an integer in {0,1,2,3}:
\* 4, -1 and non-integer numbers are rejected.
C24_AcceptedAnswerIsIntegerInRange ==
  aPc = "returned" =>
    /\ IsInteger(aOutcome.dto.answer)
    /\ aOutcome.dto.answer.halves \in {0, 2, 4, 6}

IsBlank(v) == v.type = "string" /\ \A i \in 1..Len(v.chars) : v.chars[i] = " "

\* C25: a response whose ans_description is empty or only white space is
\* rejected, so every returned SolutionOutput has a description with at least
\* one character that is not white space.
C25_BlankDescriptionRejected ==
  /\ (Validated /\ IsBlank(aFields.ans_description)) => aPc = "failed"
  /\ aPc = "returned" =>
       /\ aOutcome.dto.ans_description.type = "string"
       /\ \E i \in 1..Len(aOutcome.dto.ans_description.chars) :
            aOutcome.dto.ans_description.chars[i] # " "

C25_Witness ==
  /\ aPc = "failed"
  /\ aFields.answer = Num(2)
  /\ aFields.references = "array"
  /\ aFields.ans_description = Str(<<" ">>)
  /\ aOutcome.error.origin = <<DescriptionEmptyMessage>>

\* the fields of a response that break a rule of the validator
ViolatedFields(r) ==
  {f \in {"answer"} : r.answer.type # "number" \/ r.answer.halves < 0 \/ r.answer.halves > 6}
  \cup {f \in {"ans_description"} :
          r.ans_description.type # "string" \/ IsBlank(r.ans_description)}
  \cup {f \in {"references"} : r.references # "array"}

\* the fields an error message names
NamedFields(message) ==
  {f \in {"answer", "ans_description", "references"} :
     \E i \in 1..Len(message) :
       \/ message[i] = f
       \/ f = "answer" /\ message[i] = AnswerRangeMessage
       \/ f = "ans_description" /\ message[i] = DescriptionEmptyMessage}

\* C26: when a response violates several validation rules at once, the
\* validation error names every violated field, not only the first detected.
C26_ValidationErrorNamesEveryField ==
  (aPc = "failed" /\ Validated)
    => ViolatedFields(aFields) \subseteq NamedFields(aOutcome.error.message)

\* 1-based positions of the first "{" and the last "}" of a text
FirstOpen(t) == CHOOSE i \in 1..Len(t) : t[i] = "{" /\ \A j \in 1..(i - 1) : t[j] # "{"
LastClose(t) == CHOOSE i \in 1..Len(t) : t[i] = "}" /\ \A j \in (i + 1)..Len(t) : t[j] # "}"
HasObject(t) ==
  /\ \E i \in 1..Len(t) : t[i] = "{"
  /\ \E i \in 1..Len(t) : t[i] = "}"
  /\ FirstOpen(t) < LastClose(t)

\* C27: generate parses exactly the part of the agent's final text from the
\* first "{" to the last "}"; if that part is not valid JSON, generate fails
\* with a JSON parse error and the agent is not invoked again.
C27_ParsesFirstOpenToLastClose ==
  (aPc \in {"returned", "failed"} /\ aOutput.kind = "text" /\ HasObject(aOutput.text))
    => /\ aJsonString = SubSeq(aOutput.text, FirstOpen(aOutput.text), LastClose(aOutput.text))
       /\ JSONparse(aJsonString) = "SyntaxError"
            => /\ aPc = "failed"
               /\ aOutcome.error.origin = <<"Unexpected token">>
               /\ aOutcome.error.message[2] = "Invalid JSON response from LangChain agent: "
       /\ aInvoked = 1

C27_Witness ==
  /\ aPc = "failed"
  /\ aOutput.text = <<"{", "}", "p", "}">>
  /\ aJsonString = aOutput.text
  /\ aInvoked = 1


(***************************************************************************)
(* The controller: generateSolution, then gradeQuestion and                *)
(* classifyQuestion joined by Promise.all                                  *)
(***************************************************************************)
ImageData == {"bytes1", "bytes2"}
OtherData(d) == CHOOSE e \in ImageData : e # d
\* extractAndProcessImages: of the markdown images of the text, numbered by
\* their position, those in `downloaded` are returned, in the order of the text
Images(downloaded, d) ==
  [i \in 1..Cardinality(downloaded) |->
     [url |-> CHOOSE u \in downloaded : Cardinality({v \in downloaded : v < u}) = i - 1,
      mimeType |-> "image/png", data |-> d]]
OtherImages(images) ==
  [i \in 1..Len(images) |->
     [url |-> images[i].url, mimeType |-> images[i].mimeType,
      data |-> OtherData(images[i].data)]]
\* the same question with other image bytes
Twin(question) ==
  [markdown |-> question.markdown, images |-> OtherImages(question.images),
   processed |-> OtherImages(question.processed)]

\* `data:${image.mimeType};base64,${image.data}`
DataUrl(image) == <<"data:", image.mimeType, ";base64,", image.data>>
ImageParts(question) ==
  [i \in 1..Len(question.images) |->
     [type |-> "image_url", url |-> DataUrl(question.images[i])]]

\* what generate() passes to agentExecutor.invoke
generateAgentInput(question) ==
  LET extractedImages == question.images \o question.processed
  IN  [input |-> "textMessage", imagesContext |-> Len(extractedImages), content |-> <<>>]

\* what classifyQuestion() passes to agentExecutor.invoke
classifyAgentInput(question) ==
  IF Len(question.images) > 0
    THEN [input |-> "HumanMessage", imagesContext |-> 0, content |-> ImageParts(question)]
    ELSE [input |-> "textMessage", imagesContext |-> 0, content |-> <<>>]

\* what gradeQuestion() passes to llm.invoke
gradeModelInput(question) ==
  IF Len(question.images) > 0
    THEN [input |-> "HumanMessage", imagesContext |-> 0, content |-> ImageParts(question)]
    ELSE [input |-> "textPrompt", imagesContext |-> 0, content |-> <<>>]

\* an error thrown in a catch block with a fixed message of its own
Replaced(type, message, error) ==
  [type |-> type, message |-> <<message>>, origin |-> error.origin]

SyntaxError == Error("SyntaxError", <<"Unexpected token">>)

\* the errors that reach the catch block of generate()
GenerateErrors ==
  { Error("Error", <<"Vector search failed after 5 attempts: ", "connect ECONNREFUSED">>),
    Error("Error", <<"LangChain execution timed out after 120000ms">>),
    Error("LLMGenerationError", <<EmptyOutputMessage>>),
    Error("TypeError", <<"result.output.trim is not a function">>),
    Rethrown("LLMGenerationError", "Invalid JSON response from LangChain agent: ", SyntaxError),
    Rethrown("LLMGenerationError", "Invalid response format: ",
             Error("Error", <<AnswerRangeMessage>>)) }

\* the errors that reach the catch block of classifyQuestion()
ClassifyErrors ==
  { Error("Error", <<"LangChain execution timed out after 60000ms">>),
    Error("TypeError", <<"Cannot read properties of undefined (reading 'trim')">>),
    Rethrown("LLMGenerationError", "Invalid JSON response from LangChain agent: ", SyntaxError),
    Rethrown("LLMGenerationError", "Invalid classification response format: ",
             Error("Error", <<"Subject ID must be a positive integer">>)) }

\* the errors that reach the catch block of gradeQuestion()
GradeErrors(question) ==
  { Error("Error", <<"model request failed">>),
    Replaced("Error",
             IF Len(question.images) > 0
               THEN "Invalid JSON response from multimodal grading"
               ELSE "Invalid JSON response from LangChain",
             SyntaxError),
    Error("Error", <<"Validation failed: ", "difficultyRating must be one of the following values: easy, medium, hard">>) }

classifyCatch(error) ==
  Rethrown("LLMGenerationError", "Failed to classify question: ", error)

gradeCatch(error) ==
  Rethrown("LLMGenerationError", "Failed to grade question difficulty: ", error)

\* the handler's catch block: an HttpException, which LLMGenerationError
\* extends, is thrown on as it is
controllerCatch(error) ==
  IF error.type \in {"HttpException", "LLMGenerationError"}
    THEN error
    ELSE Rethrown("HttpException", "Failed to generate comprehensive solution: ", error)

Started(entry, input, twin) ==
  [status |-> "running", input |-> input, twin |-> twin, error |-> NoError,
   value |-> "none"]

\* the input validation throws a 400
requestRejected ==
  /\ cPc = "idle"
  /\ cPc' = "failed"
  /\ cResult' = [NoResult EXCEPT !.status = "failed",
                   !.error = controllerCatch(Error("HttpException", <<"Question text is required">>))]
  /\ UNCHANGED <<cQuestion, cGenerate, cGrade, cClassify, cFirstRejected>>
  /\ UNCHANGED <<cacheVars, retryVars, embedVars, searchVars, answerVars, taggerVars>>

\* the input is valid; the handler awaits extractAndProcessImages
requestAccepted ==
  /\ cPc = "idle"
  /\ cPc' = "images"
  /\ UNCHANGED <<cQuestion, cGenerate, cGrade, cClassify, cFirstRejected, cResult>>
  /\ UNCHANGED <<cacheVars, retryVars, embedVars, searchVars, answerVars, taggerVars>>

\* the images are there; the handler calls generateSolution and awaits it
imagesExtracted(markdown, downloaded, d) ==
  /\ cPc = "images"
  /\ cPc' = "generate"
  /\ downloaded \subseteq 1..markdown
  /\ cQuestion' = [markdown |-> markdown, images |-> Images(downloaded, d),
                   processed |-> <<>>]
  /\ cGenerate' = [NoEntry EXCEPT !.status = "running"]
  /\ UNCHANGED <<cGrade, cClassify, cFirstRejected, cResult>>
  /\ UNCHANGED <<cacheVars, retryVars, embedVars, searchVars, answerVars, taggerVars>>

\* generate() has looked for markdown images in the text it was given, has
\* downloaded those it found, and invokes the agent
generateInvokesAgent(downloaded) ==
  /\ cGenerate.status = "running"
  /\ downloaded \subseteq 1..cQuestion.markdown
  /\ cQuestion' = [cQuestion EXCEPT !.processed = Images(downloaded, "bytes1")]
  /\ cGenerate' = [cGenerate EXCEPT !.status = "agent",
                     !.input = generateAgentInput(cQuestion'),
                     !.twin = generateAgentInput(Twin(cQuestion'))]
  /\ UNCHANGED <<cPc, cGrade, cClassify, cFirstRejected, cResult>>
  /\ UNCHANGED <<cacheVars, retryVars, embedVars, searchVars, answerVars, taggerVars>>

generateSolutionReturns ==
  /\ cGenerate.status = "agent"
  /\ cGenerate' = [cGenerate EXCEPT !.status = "returned", !.value = "solution"]
  /\ UNCHANGED <<cPc, cQuestion, cGrade, cClassify, cFirstRejected, cResult>>
  /\ UNCHANGED <<cacheVars, retryVars, embedVars, searchVars, answerVars, taggerVars>>

generateSolutionRejects(error) ==
  /\ cGenerate.status = "agent"
  /\ cGenerate' = [cGenerate EXCEPT !.status = "failed", !.error = generateCatch(error)]
  /\ UNCHANGED <<cPc, cQuestion, cGrade, cClassify, cFirstRejected, cResult>>
  /\ UNCHANGED <<cacheVars, retryVars, embedVars, searchVars, answerVars, taggerVars>>

\* the await of generateSolution throws into the handler's catch block
generateFailureCaught ==
  /\ cPc = "generate"
  /\ cGenerate.status = "failed"
  /\ cPc' = "failed"
  /\ cResult' = [NoResult EXCEPT !.status = "failed",
                   !.error = controllerCatch(cGenerate.error)]
  /\ UNCHANGED <<cQuestion, cGenerate, cGrade, cClassify, cFirstRejected>>
  /\ UNCHANGED <<cacheVars, retryVars, embedVars, searchVars, answerVars, taggerVars>>

AgentExecutorUnsetMessage == "Cannot read properties of undefined (reading 'invoke')"

\* initializeAgent() gets past its await and assigns this.agentExecutor
initializeAgentCompletes ==
  /\ taggerAgent = "pending"
  /\ taggerAgent' = "set"
  /\ UNCHANGED classificationVars
  /\ UNCHANGED <<cacheVars, retryVars, embedVars, searchVars, answerVars, controllerVars>>

\* initializeAgent() throws: the promise the constructor dropped is rejected
initializeAgentFails ==
  /\ taggerAgent = "pending"
  /\ taggerAgent' = "failed"
  /\ UNCHANGED classificationVars
  /\ UNCHANGED <<cacheVars, retryVars, embedVars, searchVars, answerVars, controllerVars>>

\* classifyQuestion() up to its first await: with agentExecutor assigned it
\* invokes the agent, without it `this.agentExecutor.invoke` throws
classifyCalled(question) ==
  IF taggerAgent = "set"
    THEN Started(cClassify, classifyAgentInput(question), classifyAgentInput(Twin(question)))
    ELSE [NoEntry EXCEPT !.status = "failed",
            !.error = classifyCatch(Error("TypeError", <<AgentExecutorUnsetMessage>>))]

\* only gradeQuestion is called; classifyQuestion waits for its result
gradeStartsAlone ==
  /\ cPc = "generate"
  /\ cGenerate.status = "returned"
  /\ cPc' = "join"
  /\ cGrade' = Started(cGrade, gradeModelInput(cQuestion), gradeModelInput(Twin(cQuestion)))
  /\ UNCHANGED <<cQuestion, cGenerate, cClassify, cFirstRejected, cResult>>
  /\ UNCHANGED <<cacheVars, retryVars, embedVars, searchVars, answerVars, taggerVars>>

\* the array given to Promise.all: both calls run up to their first await
gradeAndClassifyStart ==
  /\ cPc = "generate"
  /\ cGenerate.status = "returned"
  /\ cPc' = "join"
  /\ cGrade' = Started(cGrade, gradeModelInput(cQuestion), gradeModelInput(Twin(cQuestion)))
  /\ cClassify' = classifyCalled(cQuestion)
  /\ cFirstRejected' = IF cClassify'.status = "failed" THEN "classify" ELSE cFirstRejected
  /\ UNCHANGED <<cQuestion, cGenerate, cResult>>
  /\ UNCHANGED <<cacheVars, retryVars, embedVars, searchVars, answerVars, taggerVars>>

gradeResolves(rating) ==
  /\ cGrade.status = "running"
  /\ cGrade' = [cGrade EXCEPT !.status = "returned", !.value = rating]
  /\ UNCHANGED <<cPc, cQuestion, cGenerate, cClassify, cFirstRejected, cResult>>
  /\ UNCHANGED <<cacheVars, retryVars, embedVars, searchVars, answerVars, taggerVars>>

gradeRejects ==
  /\ cGrade.status = "running"
  /\ \E error \in GradeErrors(cQuestion) :
       cGrade' = [cGrade EXCEPT !.status = "failed", !.error = gradeCatch(error)]
  /\ cFirstRejected' = IF cFirstRejected = "none" THEN "grade" ELSE cFirstRejected
  /\ UNCHANGED <<cPc, cQuestion, cGenerate, cClassify, cResult>>
  /\ UNCHANGED <<cacheVars, retryVars, embedVars, searchVars, answerVars, taggerVars>>

classifyResolves ==
  /\ cClassify.status = "running"
  /\ cClassify' = [cClassify EXCEPT !.status = "returned", !.value = "classification"]
  /\ UNCHANGED <<cPc, cQuestion, cGenerate, cGrade, cFirstRejected, cResult>>
  /\ UNCHANGED <<cacheVars, retryVars, embedVars, searchVars, answerVars, taggerVars>>

classifyRejects(error) ==
  /\ cClassify.status = "running"
  /\ cClassify' = [cClassify EXCEPT !.status = "failed", !.error = classifyCatch(error)]
  /\ cFirstRejected' = IF cFirstRejected = "none" THEN "classify" ELSE cFirstRejected
  /\ UNCHANGED <<cPc, cQuestion, cGenerate, cGrade, cResult>>
  /\ UNCHANGED <<cacheVars, retryVars, embedVars, searchVars, answerVars, taggerVars>>

\* both member promises are fulfilled: the handler builds the response
promiseAllResolves ==
  /\ cPc = "join"
  /\ cGrade.status = "returned"
  /\ cClassify.status = "returned"
  /\ cPc' = "responded"
  /\ cResult' = [status |-> "responded", error |-> NoError, difficulty |-> cGrade.value,
                 subject |-> cClassify.value, description |-> cGenerate.value]
  /\ UNCHANGED <<cQuestion, cGenerate, cGrade, cClassify, cFirstRejected>>
  /\ UNCHANGED <<cacheVars, retryVars, embedVars, searchVars, answerVars, taggerVars>>

\* Promise.all rejects with the first rejection, whatever the other call does
promiseAllRejects ==
  /\ cPc = "join"
  /\ cFirstRejected # "none"
  /\ cPc' = "failed"
  /\ cResult' = [NoResult EXCEPT !.status = "failed",
                   !.error = controllerCatch(IF cFirstRejected = "grade"
                                               THEN cGrade.error ELSE cClassify.error)]
  /\ UNCHANGED <<cQuestion, cGenerate, cGrade, cClassify, cFirstRejected>>
  /\ UNCHANGED <<cacheVars, retryVars, embedVars, searchVars, answerVars, taggerVars>>

ControllerNext ==
  \/ requestRejected
  \/ requestAccepted
  \/ \E markdown \in 0..MaxImages, downloaded \in SUBSET (1..MaxImages), d \in ImageData :
       imagesExtracted(markdown, downloaded, d)
  \/ \E downloaded \in SUBSET (1..MaxImages) : generateInvokesAgent(downloaded)
  \/ generateSolutionReturns
  \/ \E error \in GenerateErrors : generateSolutionRejects(error)
  \/ generateFailureCaught
  \/ gradeAndClassifyStart
  \/ \E rating \in {"easy", "medium", "hard"} : gradeResolves(rating)
  \/ gradeRejects
  \/ classifyResolves
  \/ \E error \in ClassifyErrors : classifyRejects(error)
  \/ promiseAllResolves
  \/ promiseAllRejects
  \/ initializeAgentCompletes
  \/ initializeAgentFails

SpecController == Init /\ [][ControllerNext]_vars


(***************************************************************************)
(* Claims about the entry points and the controller                        *)
(***************************************************************************)
\* C23: no agent invocation receives raw image bytes: the input generate and
\* classifyQuestion pass to the agent is text only and is the same for two
\* questions that differ only in their image data.
C23_AgentInputIndependentOfImageData ==
  /\ cGenerate.status # "none" =>
       cGenerate.input = cGenerate.twin /\ cGenerate.input.content = <<>>
  /\ cClassify.status # "none" =>
       cClassify.input = cClassify.twin /\ cClassify.input.content = <<>>

\* message o occurs in message m
Contains(m, o) ==
  \E i \in 0..(Len(m) - Len(o)) : SubSeq(m, i + 1, i + Len(o)) = o

\* C28: every failure of generate, classifyQuestion or gradeQuestion reaches
\* the caller as one LLMGenerationError whose message contains the message of
\* the original error, whatever stage failed.
C28_FailureCarriesOriginalMessage ==
  \A entry \in {cGenerate, cGrade, cClassify} :
    entry.status = "failed" =>
      /\ entry.error.type = "LLMGenerationError"
      /\ Contains(entry.error.message, entry.error.origin)

\* C30: gradeQuestion and classifyQuestion are started only after
\* generateSolution has returned, both are started before either is awaited,
\* the response is built only after both have completed, and none is started
\* if generateSolution fails.
C30_FanOutAfterGenerateJoinBeforeResponse ==
  /\ (cGrade.status # "none" \/ cClassify.status # "none")
       => cGenerate.status = "returned"
  /\ cGrade.status = "none" <=> cClassify.status = "none"
  /\ cPc = "responded" => cGrade.status = "returned" /\ cClassify.status = "returned"
  /\ cGenerate.status = "failed" => cGrade.status = "none" /\ cClassify.status = "none"

C30_Witness ==
  /\ cPc = "join"
  /\ cClassify.status = "returned"
  /\ cGrade.status = "running"


(***************************************************************************)
(* Claims about the cache, the retry wrapper and the embedding tool        *)
(***************************************************************************)
\* this step runs clearEmbeddingCache
Clears == clears' # clears

\* C31: right after the embedding cache is cleared a lookup of any id stored
\* before finds nothing, for the 3072 and the 1536 entry alike, and clearing a
\* cleared cache leaves it as it is.
C31_ClearEmptiesCacheAndIsIdempotent ==
  [][Clears =>
       /\ \A key \in DOMAIN embeddingCache : key \notin DOMAIN embeddingCache'
       /\ embeddingCounter' = 0
       /\ (embeddingCache = EmptyCache /\ embeddingCounter = 0)
            => (embeddingCache' = embeddingCache /\ embeddingCounter' = embeddingCounter)]_vars

C31_Witness ==
  /\ \E c \in Calls : returnedIds[c] # <<>>
  /\ \E c \in Calls : clears[c] > 0 /\ gen[c] = "agent" /\ returnedIds[c] = <<>>
  /\ embeddingCache = EmptyCache
  /\ embeddingCounter = 0


\* C34: if the operation first succeeds on attempt k, retryOperation has called
\* it k times, slept k-1 times (once between consecutive attempts) and returns
\* that attempt's result; if all maxRetries attempts fail it has slept
\* maxRetries - 1 times: there is no sleep after the last failed attempt.
C34_OneSleepBetweenConsecutiveAttempts ==
  /\ rPc = "returned" =>
       /\ invocations = attempt
       /\ sleeps = attempt - 1
       /\ outcome \in Results
  /\ rPc = "thrown" =>
       /\ invocations = maxRetries
       /\ sleeps = maxRetries - 1
  /\ rPc = "await" => sleeps = invocations - 1
  /\ rPc = "sleep" => sleeps = invocations /\ invocations < maxRetries

C34_Witness ==
  /\ rPc = "returned"
  /\ attempt = 3
  /\ invocations = 3
  /\ sleeps = 2
  /\ maxRetries > 3


\* the generateEmbedding calls of the generate call that have returned
EmbeddingsReturned == IF ePc \in {"idle", "returned"} THEN eCalls ELSE eCalls - 1

\* C35: a generateEmbedding attempt in which one of the two requests fails
\* leaves the cache and the id counter as they were, also when the tool gives
\* up; so, within one generate call, the k-th generateEmbedding that succeeds
\* after the clear returns emb_k and the cache then holds exactly 2k entries.
C35_FailedAttemptsLeaveCacheAndCounter ==
  /\ embeddingCounter = EmbeddingsReturned
  /\ DOMAIN embeddingCache =
       {CacheKey(id, dim) : id \in 1..EmbeddingsReturned, dim \in Dims}
  /\ Cardinality(DOMAIN embeddingCache) = 2 * EmbeddingsReturned
  /\ ePc = "returned" => eResponse.embeddingId = eCalls

C35_Witness ==
  /\ ePc = "returned"
  /\ eCalls = 2
  /\ eAttempt >= 2
  /\ eResponse.embeddingId = 2
  /\ Cardinality(DOMAIN embeddingCache) = 4

C35_WitnessExhausted ==
  /\ ePc = "thrown"
  /\ eCalls = 2
  /\ embeddingCounter = 1


\* the markdown images of the question that were extracted at all
ExtractedUrls(question) ==
  {question.images[i].url : i \in 1..Len(question.images)}
  \cup {question.processed[i].url : i \in 1..Len(question.processed)}

\* C36: the image count announced to the agent equals the number of images
\* extracted from the question and its options: when the controller has
\* extracted the markdown images into question.images and the markdown is
\* still in the text, each image is counted once.
C36_AnnouncedCountIsNumberOfImages ==
  cGenerate.status \in {"agent", "returned", "failed"}
    => cGenerate.input.imagesContext = Cardinality(ExtractedUrls(cQuestion))


\* C37: classifyQuestion never uses the classification agent before its
\* initialization has completed: every classifyQuestion call made after the
\* service was constructed finds agentExecutor set.
C37_ClassifyFindsAgentExecutor ==
  cClassify.status = "failed"
    => cClassify.error.origin # <<AgentExecutorUnsetMessage>>


\* C33: a pooled connection is never released back to the pool while a query
\* issued on it is still in flight, also when the 20 s timer wins the race.
C33_NoReleaseWithQueryInFlight == ~pgInFlight


\* C38: in vectorSearch and videoSearch every attempt that awaits its query can
\* be ended by its 20 s timer; an attempt the timer ended is one failed attempt
\* of the retry loop (a sleep follows it, or after the fifth the tool gives
\* up); and a tool call makes at most 5 attempts, each issuing the query at
\* most once.
C38_TimedOutAttemptCountsAndAtMostFiveQueries ==
  \A u \in Searchers :
    LET r == users[u]
    IN /\ r.attempt <= SearchMaxRetries
       /\ r.pc = "query" => ENABLED queryFails(u, TRUE)
       /\ r.exit = "timeout"
            => IF r.attempt < SearchMaxRetries
                 THEN r.pc = "sleep"
                 ELSE /\ r.pc = IF u = "videoSearch" THEN "returned" ELSE "threw"
                      /\ r.response.cause = "query"

C38_Witness ==
  /\ users["vectorSearch"].exit = "timeout"
  /\ users["vectorSearch"].attempt = SearchMaxRetries
  /\ users["vectorSearch"].pc = "threw"
  /\ users["videoSearch"].exit = "timeout"
  /\ users["videoSearch"].attempt = 2
  /\ users["videoSearch"].pc = "sleep"


(***************************************************************************)
(* QuestionTaggerService.validateAndTransformResponse                      *)
(***************************************************************************)
\* largest id the agent's answer is drawn from
MaxId == 2

Null == [type |-> "null", halves |-> 0, chars |-> <<>>]
\* ids in halves, from -1 to MaxId: negative, zero, fractional and positive
IdHalves == (-2)..(2 * MaxId)
IdValues == {Num(h) : h \in IdHalves} \cup {Null, Undefined, Str(<<"a">>)}
\* what JSON.parse can hand over: null, a number, a string, an array, or an
\* object whose three properties are present or missing
ParsedResponses ==
  {[kind |-> k, fields |-> NoIds] : k \in {"null", "number", "string", "array"}}
    \cup {[kind |-> "object", fields |-> f] :
            f \in [subject_id : IdValues, topic_id : IdValues, category_id : IdValues]}

\* !response || typeof response !== 'object'   (typeof null is 'object', and
\* null is falsy; an array is a truthy object)
notAnObject(response) == response.kind \notin {"object", "array"}

\* a transformation that passes 0 on
zeroStays(v) == v

\* v === 0 ? null : v
zeroToNull(v) == IF v = Num(0) THEN Null ELSE v

transformedResponse(response) ==
  [subject_id |-> response.fields.subject_id,
   topic_id |-> zeroToNull(response.fields.topic_id),
   category_id |-> zeroToNull(response.fields.category_id)]

\* @IsNumber(), and @IsOptional() before it: undefined and null skip the check
isNumber(v) == v.type = "number"
isOptional(v) == v.type \in {"undefined", "null"}

\* validate(dto): the properties with a failed constraint
classificationErrors(dto) ==
  (IF ~isNumber(dto.subject_id) THEN <<"subject_id">> ELSE <<>>)
  \o (IF ~isOptional(dto.topic_id) /\ ~isNumber(dto.topic_id)
        THEN <<"topic_id">> ELSE <<>>)
  \o (IF ~isOptional(dto.category_id) /\ ~isNumber(dto.category_id)
        THEN <<"category_id">> ELSE <<>>)

\* v <= 0 as JavaScript evaluates it: undefined and "a" convert to NaN, and
\* every comparison with NaN is false; null converts to 0
lessOrEqualZero(v) ==
  CASE v.type = "number" -> v.halves <= 0
    [] v.type = "null" -> TRUE
    [] OTHER -> FALSE

\* !v for the values above
falsy(v) ==
  \/ v.type \in {"undefined", "null"}
  \/ v = Num(0)
  \/ v = Str(<<>>)

ObjectMessage == "Response must be a valid object"
ValidationFailedMessage == "Validation failed: "
SubjectMessage == "Subject ID must be a positive integer"
TopicMessage == "Topic ID must be null or a positive integer"
CategoryMessage == "Category ID must be null or a positive integer"
InvalidFormatPrefix == "Invalid classification response format: "

\* the error thrown inside the try block, NoError when the dto is returned
classificationError(response) ==
  LET dto == transformedResponse(response)
  IN IF notAnObject(response) THEN Error("Error", <<ObjectMessage>>)
     ELSE IF classificationErrors(dto) # <<>>
       THEN Error("Error", <<ValidationFailedMessage>> \o classificationErrors(dto))
     ELSE IF falsy(dto.subject_id) \/ lessOrEqualZero(dto.subject_id)
       THEN Error("Error", <<SubjectMessage>>)
     ELSE IF dto.topic_id # Null /\ lessOrEqualZero(dto.topic_id)
       THEN Error("Error", <<TopicMessage>>)
     ELSE IF dto.category_id # Null /\ lessOrEqualZero(dto.category_id)
       THEN Error("Error", <<CategoryMessage>>)
     ELSE NoError

\* validateAndTransformResponse(response): the dto, or the catch block's
\* LLMGenerationError
classificationOutcome(response) ==
  LET error == classificationError(response)
  IN IF error = NoError
       THEN [dto |-> transformedResponse(response), error |-> NoError]
       ELSE [dto |-> NoIds,
             error |-> Rethrown("LLMGenerationError", InvalidFormatPrefix, error)]

\* classifyQuestion has parsed the agent's output
responseParsed(response) ==
  /\ tPc = "idle"
  /\ tPc' = "parsed"
  /\ tResponse' = response
  /\ UNCHANGED <<tOutcome, taggerAgent>>
  /\ UNCHANGED <<cacheVars, retryVars, embedVars, searchVars, answerVars, controllerVars>>

\* await this.validateAndTransformResponse(parsedResponse)
responseValidated ==
  /\ tPc = "parsed"
  /\ tOutcome' = classificationOutcome(tResponse)
  /\ tPc' = IF tOutcome'.error = NoError THEN "returned" ELSE "threw"
  /\ UNCHANGED <<tResponse, taggerAgent>>
  /\ UNCHANGED <<cacheVars, retryVars, embedVars, searchVars, answerVars, controllerVars>>

ClassificationNext ==
  \/ \E response \in ParsedResponses : responseParsed(response)
  \/ responseValidated

SpecClassification == Init /\ [][ClassificationNext]_vars

NullOrPositive(v) == v = Null \/ (v.type = "number" /\ v.halves > 0)

\* C32: validateAndTransformResponse maps topic_id = 0 and category_id = 0 to
\* null and leaves every other value unchanged; every result it returns has
\* subject_id > 0 and topic_id and category_id each null or a positive number;
\* every rejection is an 'Invalid classification response format' error.
C32_ReturnedIdsNullOrPositive ==
  /\ tPc = "returned" =>
       /\ tOutcome.dto.subject_id = tResponse.fields.subject_id
       /\ tOutcome.dto.topic_id = zeroToNull(tResponse.fields.topic_id)
       /\ tOutcome.dto.category_id = zeroToNull(tResponse.fields.category_id)
       /\ tOutcome.dto.subject_id.type = "number" /\ tOutcome.dto.subject_id.halves > 0
       /\ NullOrPositive(tOutcome.dto.topic_id)
       /\ NullOrPositive(tOutcome.dto.category_id)
  /\ tPc = "threw" =>
       /\ tOutcome.error.type = "LLMGenerationError"
       /\ Head(tOutcome.error.message) = InvalidFormatPrefix

\* the same with a missing topic_id or category_id allowed in the result
C32_ReturnedIdsNullMissingOrPositive ==
  /\ tPc = "returned" =>
       /\ tOutcome.dto.subject_id = tResponse.fields.subject_id
       /\ tOutcome.dto.topic_id = zeroToNull(tResponse.fields.topic_id)
       /\ tOutcome.dto.category_id = zeroToNull(tResponse.fields.category_id)
       /\ tOutcome.dto.subject_id.type = "number" /\ tOutcome.dto.subject_id.halves > 0
       /\ NullOrPositive(tOutcome.dto.topic_id) \/ tOutcome.dto.topic_id = Undefined
       /\ NullOrPositive(tOutcome.dto.category_id) \/ tOutcome.dto.category_id = Undefined
  /\ tPc = "threw" =>
       /\ tOutcome.error.type = "LLMGenerationError"
       /\ Head(tOutcome.error.message) = InvalidFormatPrefix


(***************************************************************************)
(* Termination of generate()                                               *)
(***************************************************************************)
\* the final texts the agent is given here: none, the executor's stop text, an
\* object, and commentary without one
LiveTexts == {<<>>, StopText, <<"{", "p", "}">>, <<"w">>}

GenerateNext ==
  \/ \E n \in 0..MaxImages : generateCalled(n)
  \/ imageDownloadSettles
  \/ answerGenerateInvokes
  \/ agentToolRound
  \/ \E text \in LiveTexts : agentFinalText(text)
  \/ \E kind \in {"undefined", "emptyArray", "array"} : agentFinalOther(kind)
  \/ agentStopsAtLimit
  \/ agentToolThrows
  \/ answerTimeoutFires
  \/ generateHandlesOutput

\* Timers fire (the 30 s timeout of a download, the 120 s timer around the
\* invocation) and code that is ready to run is run by the event loop. Nothing
\* is assumed about the agent: it may take rounds forever or never answer.
SpecGenerateLive ==
  /\ Init
  /\ [][GenerateNext]_vars
  /\ WF_vars(imageDownloadSettles)
  /\ WF_vars(answerGenerateInvokes)
  /\ WF_vars(answerTimeoutFires)
  /\ WF_vars(generateHandlesOutput)

Completed == aPc \in {"returned", "failed"}

\* C39: every generate call eventually completes, by returning a
\* SolutionOutput or by throwing, provided timers eventually fire: an
\* invocation that never settles is ended by the 120 s timeout, and no other
\* step of generate waits forever.
C39_GenerateEventuallyCompletes == (aPc # "idle") ~> Completed

C39_Witness ==
  /\ aPc = "failed"
  /\ aOutcome.error.origin = <<"LangChain execution timed out after 120000ms">>
  /\ aIterations = 0
  /\ aInvoked = 1

=============================================================================
